---- MODULE Spec2Model ----
(***************************************************************************)
(* Block-based table builder (table/block_based_table_builder.cc) and the  *)
(* partitioned index builder (table/index_builder.cc) of X-Engine.         *)
(*                                                                         *)
(* Keys are the integers 1..MaxKey ordered by <, 0 stands for the empty    *)
(* string.  Block contents are records that carry their kind, their        *)
(* entries and their length in bytes; the file is the sequence of chunks   *)
(* the WritableFileWriter accepted, one chunk per successful Append call.  *)
(*                                                                         *)
(* The format layer (table/format.cc: block handles, footers, block reads) *)
(* works on bytes: an encoding is a sequence of numbers 0..255.            *)
(***************************************************************************)
EXTENDS Integers, Sequences, FiniteSets, TLC

VARIABLES
  pib,   \* a PartitionedIndexBuilder driven directly by its caller
  drv,   \* that caller: what it passed in and what it got back
  rep,   \* BlockBasedTableBuilder::Rep, with the file it writes
  io     \* the last call into the format layer (table/format.cc): its
         \* arguments, what the file gave it and what it returned

vars == <<pib, drv, rep, io>>

\* ---------------------------------------------------------------- bounds
MaxKey == 3
MaxIndexKey == 4
MaxOff == 1
MaxRangeDel == 1
MaxFieldBytes == 3

\* ------------------------------------------------------------- utilities
Last(s) == s[Len(s)]

\* No call into the format layer has been made.
NoCall == [op |-> "none"]

RECURSIVE SumLen(_)
SumLen(s) == IF s = <<>> THEN 0 ELSE s[1].len + SumLen(Tail(s))

BlockHandle(o, s) == [offset |-> o, size |-> s]

\* BlockHandle::kNullBlockHandle, also the value of a default-constructed
\* handle as far as this model reads it.
kNullBlockHandle == BlockHandle(0, 0)

\* ============================================================ index side
\* ShortenedIndexBuilder is the sub-index (and flat index) builder.  It is
\* kept as the list of the entries it was given.
NoSubIndex == [isnull |-> TRUE, ents |-> <<>>]

MakeNewSubIndexBuilder == [isnull |-> FALSE, ents |-> <<>>]

SubAddIndexEntry(sub, last_key, next_key, handle) ==
  [sub EXCEPT !.ents = Append(@, [last_key |-> last_key,
                                  next_key |-> next_key,
                                  handle   |-> handle])]

\* ShortenedIndexBuilder::Finish hands out its block and reports OK.
SubFinish(sub) ==
  [status |-> "OK", contents |-> [kind |-> "index_partition", ents |-> sub.ents]]

\* PartitionedIndexBuilder::PartitionedIndexBuilder
NewPartitionedIndexBuilder ==
  [entries_             |-> <<>>,
   sub_index_builder_   |-> NoSubIndex,
   sub_index_last_key_  |-> 0,
   index_block_builder_ |-> <<>>,
   finishing_indexes    |-> FALSE,
   cut_filter_block     |-> FALSE]

\* A seal that takes the key of the first entry of the partition it closes
\* instead of the key of its last entry.
SealedEntryFirstKey(ib) ==
  [key |-> ib.sub_index_builder_.ents[1].last_key, value |-> ib.sub_index_builder_]

\* The entry a seal pushes on entries_: (sub_index_last_key_, sub-index).
SealedEntry(ib) == [key |-> ib.sub_index_last_key_, value |-> ib.sub_index_builder_]

\* The last entry treated like any other: added to the active sub-index,
\* which stays in flight.
AddIndexEntryNoNextUnsealed(ib, last_key, handle) ==
  LET sub0 == IF ib.sub_index_builder_.isnull THEN MakeNewSubIndexBuilder
                                               ELSE ib.sub_index_builder_
  IN [ib EXCEPT !.sub_index_builder_ = SubAddIndexEntry(sub0, last_key, 0, handle),
                !.sub_index_last_key_ = last_key]

\* PartitionedIndexBuilder::AddIndexEntry, lines 99-110: no more keys.
AddIndexEntryNoNext(ib, last_key, handle) ==
  LET sub0 == IF ib.sub_index_builder_.isnull THEN MakeNewSubIndexBuilder
                                               ELSE ib.sub_index_builder_
      sub1 == SubAddIndexEntry(sub0, last_key, 0, handle)
      ib1  == [ib EXCEPT !.sub_index_builder_ = sub1,
                         !.sub_index_last_key_ = last_key]
  IN [ib1 EXCEPT !.entries_ = Append(@, SealedEntry(ib1)),
                 !.sub_index_builder_ = NoSubIndex,
                 !.cut_filter_block = TRUE]

\* PartitionedIndexBuilder::AddIndexEntry, lines 111-132; do_flush is what
\* flush_policy_->Update answers when it is asked.
AddIndexEntryNext(ib, last_key, next_key, handle, do_flush) ==
  LET flush == (~ib.sub_index_builder_.isnull) /\ do_flush
      ib1  == IF flush
                THEN [ib EXCEPT !.entries_ = Append(@, SealedEntry(ib)),
                                !.cut_filter_block = TRUE,
                                !.sub_index_builder_ = NoSubIndex]
                ELSE ib
      sub0 == IF ib1.sub_index_builder_.isnull THEN MakeNewSubIndexBuilder
                                                ELSE ib1.sub_index_builder_
  IN [ib1 EXCEPT !.sub_index_builder_ =
                     SubAddIndexEntry(sub0, last_key, next_key, handle),
                 !.sub_index_last_key_ = last_key]

\* PartitionedIndexBuilder::AddIndexEntry; next_key = 0 is the null pointer.
PIBAddIndexEntry(ib, last_key, next_key, handle, do_flush) ==
  IF next_key = 0
    THEN AddIndexEntryNoNext(ib, last_key, handle)
    ELSE AddIndexEntryNext(ib, last_key, next_key, handle, do_flush)

\* The step below when the first call of the protocol already takes it
\* (finishing_indexes not consulted): a partition is dropped that was never
\* handed out.
RecordLastPartitionAlways(ib, handle) ==
  IF ib.entries_ # <<>>
    THEN [ib EXCEPT !.index_block_builder_ =
                        Append(@, [key |-> ib.entries_[1].key, handle |-> handle]),
                    !.entries_ = Tail(@)]
    ELSE ib

\* The step below without the pop_front.
RecordLastPartitionNoPop(ib, handle) ==
  IF ib.finishing_indexes
    THEN [ib EXCEPT !.index_block_builder_ =
                        Append(@, [key |-> ib.entries_[1].key, handle |-> handle])]
    ELSE ib

\* PartitionedIndexBuilder::Finish, lines 140-146: the partition handed out
\* by the previous call now has a handle; enter it in the top-level index
\* and drop it from the pending list.
RecordLastPartition(ib, handle) ==
  IF ib.finishing_indexes
    THEN [ib EXCEPT !.index_block_builder_ =
                        Append(@, [key |-> ib.entries_[1].key, handle |-> handle]),
                    !.entries_ = Tail(@)]
    ELSE ib

\* PartitionedIndexBuilder::Finish: the builder after the call, the status
\* and index_blocks->index_block_contents.
PIBFinish(ib, handle) ==
  LET ib1 == RecordLastPartition(ib, handle)
  IN IF ib1.entries_ = <<>>
       THEN [ib |-> ib1, status |-> "OK",
             contents |-> [kind |-> "index_top", ents |-> ib1.index_block_builder_]]
       ELSE LET s == SubFinish(ib1.entries_[1].value)
            IN [ib |-> [ib1 EXCEPT !.finishing_indexes = TRUE],
                status |-> IF s.status = "OK" THEN "Incomplete" ELSE s.status,
                contents |-> s.contents]

\* PartitionedIndexBuilder::ShouldCutFilterBlock: the partitioned filter
\* builder consumes the cut signal.
PIBShouldCutFilterBlock(ib) == [ib EXCEPT !.cut_filter_block = FALSE]

\* ========================================================== builder side
\* Sizes.  kBlockTrailerSize is the type byte plus the 32-bit checksum.
kBlockTrailerSize == 5
kVersion0EncodedLength == 48
kNewVersionsEncodedLength == 53
\* BlockHandle() leaves both fields at ~0; -1 stands for that sentinel.
UninitHandle == BlockHandle(-1, -1)

\* Length in bytes of a block built from a list of entries (BlockBuilder):
\* a fixed part and a part per entry.
BlockLen(ents) == 8 + 8 * Len(ents)

Block(kind, ents) == [kind |-> kind, ents |-> ents, len |-> BlockLen(ents), enc |-> "raw"]

\* ---- the environment of one call: at most one fault, which hits the
\* at-th file append, the at-th block compression or the at-th cache
\* insertion of the call.
NoFault == [kind |-> "none", at |-> 0, how |-> "none"]

CodecDeviations == {"codec_fails", "poor_ratio", "barely_good", "mismatch", "undecodable"}

TakesFault(r, k) == r.env.kind = k /\ r.env.at = 1

Tick(r, k) == IF r.env.kind = k THEN [r EXCEPT !.env.at = @ - 1] ELSE r

Ok(r) == r.status = "OK"

\* r->status = r->file->Append(data)
FileAppend(r, chunk) ==
  IF TakesFault(r, "append")
    THEN [Tick(r, "append") EXCEPT !.status = "IOError", !.ever_failed = TRUE]
    ELSE [Tick(r, "append") EXCEPT !.status = "OK", !.file = Append(@, chunk)]

\* The checksum of the trailer, over the block contents followed by the
\* type byte, by the algorithm of table_options.checksum (kNoChecksum falls
\* through to CRC32c).
Checksum(r, c, type) ==
  [alg  |-> IF r.opt.checksum = "kxxHash" THEN "xxHash" ELSE "CRC32c",
   over |-> <<c, type>>]

\* An InsertBlockInCache that copies raw blocks into the cache as well.
InsertBlockInCacheAnyType(r, c, type, handle) ==
  IF r.opt.block_cache_compressed
    THEN IF TakesFault(r, "oom")
           THEN [Tick(r, "oom") EXCEPT !.status = "MemoryLimit", !.ever_failed = TRUE]
           ELSE [Tick(r, "oom") EXCEPT
                   !.status = "OK",
                   !.cache = @ \cup {[key |-> handle.offset, block |-> c, type |-> type]}]
    ELSE [r EXCEPT !.status = "OK"]

\* BlockBasedTableBuilder::InsertBlockInCache: the status it returns and the
\* cache afterwards.
InsertBlockInCache(r, c, type, handle) ==
  IF type # "kNoCompression" /\ r.opt.block_cache_compressed
    THEN IF TakesFault(r, "oom")
           THEN [Tick(r, "oom") EXCEPT !.status = "MemoryLimit", !.ever_failed = TRUE]
           ELSE [Tick(r, "oom") EXCEPT
                   !.status = "OK",
                   !.cache = @ \cup {[key |-> handle.offset, block |-> c, type |-> type]}]
    ELSE [r EXCEPT !.status = "OK"]

\* An offset that is advanced by the contents only.
AdvanceOffsetNoTrailer(r, c) == [r EXCEPT !.offset = @ + c.len]

\* line 567: r->offset += block_contents.size() + kBlockTrailerSize
AdvanceOffset(r, c) == [r EXCEPT !.offset = @ + c.len + kBlockTrailerSize]

\* BlockBasedTableBuilder::WriteRawBlock, by its steps.
\* lines 534-536: the handle (kept in r.h) and the block contents
AppendContents(r, c, type) ==
  FileAppend([r EXCEPT !.h = BlockHandle(r.offset, c.len)],
             [part |-> "contents", len |-> c.len, block |-> c, type |-> type])

\* lines 537-562: the trailer, when the contents went through
AppendTrailer(r, c, type) ==
  IF Ok(r)
    THEN FileAppend(r, [part |-> "trailer", len |-> kBlockTrailerSize,
                        block |-> Checksum(r, c, type), type |-> type])
    ELSE r

\* lines 563-565: the compressed block cache, when the trailer went through
CacheRawBlock(r, c, type) ==
  IF Ok(r) THEN InsertBlockInCache(r, c, type, r.h) ELSE r

\* lines 566-568: the offset, when all of it went through
OffsetAdvanced(r, c) == IF Ok(r) THEN AdvanceOffset(r, c) ELSE r

\* The call is entered in the log r.written: r0 is the builder before the
\* call and r the builder after it.
RawBlockLogged(r0, r, c, type) ==
  [r EXCEPT !.written = Append(@, [handle |-> r.h, block |-> c, type |-> type,
                                   before |-> r0.offset, chunks |-> Len(r0.file),
                                   ok |-> Ok(r)])]

WriteRawBlock(r, c, type) ==
  RawBlockLogged(
    r,
    OffsetAdvanced(
      CacheRawBlock(AppendTrailer(AppendContents(r, c, type), c, type), c, type),
      c),
    c, type)

\* A ratio test that lets a block of exactly seven eighths through.
GoodCompressionRatioInclusive(compressed_size, raw_size) ==
  compressed_size <= raw_size - (raw_size \div 8)

\* GoodCompressionRatio
GoodCompressionRatio(compressed_size, raw_size) ==
  compressed_size < raw_size - (raw_size \div 8)

\* What the codec does with this block: whether it succeeds, how long its
\* output is and what the output decompresses to.
CodecResult(r, raw) ==
  LET how == IF TakesFault(r, "codec") THEN r.env.how ELSE "good"
  IN [success |-> how # "codec_fails",
      size    |-> CASE how = "poor_ratio"  -> raw.len - (raw.len \div 8)
                    [] how = "barely_good" -> raw.len - (raw.len \div 8) - 1
                    [] OTHER               -> raw.len \div 2,
      decodes |-> CASE how = "mismatch"    -> "differs"
                    [] how = "undecodable" -> "error"
                    [] OTHER               -> "same"]

\* A CompressBlock that leaves the type as it was asked for when it falls
\* back to the raw contents.
CompressBlockKeepingType(raw, type, codec) ==
  IF type # "kNoCompression" /\ codec.success
     /\ GoodCompressionRatio(codec.size, raw.len)
    THEN [contents |-> [raw EXCEPT !.len = codec.size, !.enc = type],
          type |-> type]
    ELSE [contents |-> raw, type |-> type]

\* CompressBlock: the contents to store and the type, kNoCompression when
\* the codec fails or the ratio is not good enough.
CompressBlock(raw, type, codec) ==
  IF type = "kNoCompression"
    THEN [contents |-> raw, type |-> type]
    ELSE IF codec.success /\ GoodCompressionRatio(codec.size, raw.len)
           THEN [contents |-> [raw EXCEPT !.len = codec.size, !.enc = type],
                 type |-> type]
           ELSE [contents |-> raw, type |-> "kNoCompression"]

kCompressionSizeLimit == 2147483647

\* BlockBasedTableBuilder::WriteBlock(const Slice&, BlockHandle*, bool),
\* lines 466-526: the builder r, block_contents and type as they are when
\* WriteRawBlock is called.
ChosenBlock(r, raw) ==
  LET r0    == IF Ok(r) THEN r ELSE [r EXCEPT !.asserted = @ \cup {"WriteBlock:ok"}]
      small == raw.len < kCompressionSizeLimit
      codec == CodecResult(r0, raw)
      cb    == CompressBlock(raw, r0.opt.compression_type, codec)
      r1    == IF small /\ r0.opt.compression_type # "kNoCompression"
                 THEN Tick(r0, "codec") ELSE r0
      bad   == /\ small
               /\ cb.type # "kNoCompression"
               /\ r0.opt.verify_compression
               /\ codec.decodes # "same"
      r2    == IF bad
                 THEN [r1 EXCEPT !.status = "Corruption", !.ever_failed = TRUE,
                                 !.verify_failed = TRUE]
                 ELSE r1
      abort_compression == bad \/ ~small
  IN [r |-> r2,
      block_contents |-> IF abort_compression THEN raw ELSE cb.contents,
      type |-> IF abort_compression THEN "kNoCompression" ELSE cb.type]

\* line 527: WriteRawBlock(block_contents, type, handle)
WriteChosenBlock(chosen) ==
  WriteRawBlock(chosen.r, chosen.block_contents, chosen.type)

\* BlockBasedTableBuilder::WriteBlock(const Slice&, BlockHandle*, bool)
WriteBlock(r, raw, is_data_block) == WriteChosenBlock(ChosenBlock(r, raw))

\* ---- index builders behind r->index_builder
NewIndexBuilder(index_type) ==
  IF index_type = "kTwoLevelIndexSearch"
    THEN NewPartitionedIndexBuilder
    ELSE MakeNewSubIndexBuilder

\* The call is entered in the log r.index_calls, with the number of calls
\* the filter builder has received by then.
IndexCallLogged(r, last_key, next_key, handle) ==
  [r EXCEPT !.index_calls =
              Append(@, [last_key |-> last_key, next_key |-> next_key,
                         handle |-> handle,
                         filter_calls |-> Len(r.filter.calls)])]

\* r->index_builder->AddIndexEntry(&last_key, next_key, handle)
IndexAddEntry(r, last_key, next_key, handle, do_flush) ==
  IF r.opt.index_type = "kTwoLevelIndexSearch"
    THEN [IndexCallLogged(r, last_key, next_key, handle) EXCEPT
            !.index_builder = PIBAddIndexEntry(@, last_key, next_key, handle, do_flush)]
    ELSE [IndexCallLogged(r, last_key, next_key, handle) EXCEPT
            !.index_builder = SubAddIndexEntry(@, last_key, next_key, handle)]

\* HashIndexBuilder::Finish adds the two prefix blocks as meta blocks.
HashMetaBlocks ==
  << [name |-> "hashindex.prefixes", block |-> Block("hash_prefixes", <<>>)],
     [name |-> "hashindex.metadata", block |-> Block("hash_metadata", <<>>)] >>

\* index_builder->Finish(&index_blocks, handle): builder, status, index
\* block contents and meta blocks.
IndexFinish(r, handle) ==
  IF r.opt.index_type = "kTwoLevelIndexSearch"
    THEN LET res == PIBFinish(r.index_builder, handle)
         IN [ib |-> res.ib, status |-> res.status,
             block |-> Block(res.contents.kind, res.contents.ents),
             meta_blocks |-> <<>>]
    ELSE [ib |-> r.index_builder, status |-> "OK",
          block |-> Block("index", r.index_builder.ents),
          meta_blocks |-> IF r.opt.index_type = "kHashSearch" THEN HashMetaBlocks
                                                                ELSE <<>>]

\* The assertions on entry of PartitionedIndexBuilder::Finish.
IndexFinishAsserts(r) ==
  IF r.opt.index_type = "kTwoLevelIndexSearch"
    THEN (IF r.index_builder.entries_ = <<>> THEN {"Finish:entries"} ELSE {})
         \cup (IF ~r.index_builder.sub_index_builder_.isnull THEN {"Finish:sub_index"} ELSE {})
    ELSE {}

\* ---- filter builders behind r->filter_builder
\* CreateFilterBlockBuilder: which builder the options give; "assert" is the
\* failed assertion of line 87.
CreateFilterBlockBuilder(filter_policy, partition_filters, has_p_index_builder) ==
  IF filter_policy = "null" THEN "none"
  ELSE IF filter_policy = "block" THEN "block"
  ELSE IF partition_filters
         THEN (IF has_p_index_builder THEN "partitioned" ELSE "assert")
         ELSE "full"

NewFilter(type) == [type |-> type, parts |-> 0, finishing |-> FALSE, calls |-> <<>>]

FilterCall(r, call) ==
  IF r.filter.type = "none" THEN r
  ELSE [r EXCEPT !.filter.calls = Append(@, call)]

\* PartitionedFilterBlockBuilder::MaybeCutAFilterBlock: a filter partition
\* is cut when the index builder has raised the signal.
MaybeCutAFilterBlock(r) ==
  IF r.filter.type = "partitioned" /\ r.index_builder.cut_filter_block
    THEN [r EXCEPT !.filter.parts = @ + 1,
                   !.index_builder = PIBShouldCutFilterBlock(@)]
    ELSE r

FilterAdd(r, key) == FilterCall(MaybeCutAFilterBlock(r), <<"Add", key>>)

\* filter_builder->Finish(handle, &s): a partitioned filter hands out one
\* partition per call with Incomplete and then its index with OK; the other
\* filters hand out their single block with OK.
FilterFinish(r) ==
  IF r.filter.type = "partitioned"
    THEN LET r1 == IF r.filter.finishing
                     THEN [r EXCEPT !.filter.parts = @ - 1]
                     ELSE MaybeCutAFilterBlock(r)
         IN IF r1.filter.parts = 0
              THEN [r |-> FilterCall(r1, <<"Finish", "OK">>), status |-> "OK",
                    block |-> IF r1.filter.finishing
                                THEN Block("filter_index", <<>>)
                                ELSE [kind |-> "filter_index", ents |-> <<>>,
                                      len |-> 0, enc |-> "raw"]]
              ELSE [r |-> FilterCall([r1 EXCEPT !.filter.finishing = TRUE],
                                     <<"Finish", "Incomplete">>),
                    status |-> "Incomplete",
                    block |-> Block("filter_partition", <<>>)]
    ELSE [r |-> FilterCall(r, <<"Finish", "OK">>), status |-> "OK",
          block |-> Block("filter", <<>>)]


\* ---- BlockBasedTableBuilder::Rep
\* The locals of Finish(): the block handles, the meta-index builder (mib),
\* index_blocks and index_builder_status.
NoLoc == [filter_h |-> UninitHandle, metaindex_h |-> UninitHandle,
          index_h |-> UninitHandle, mib |-> <<>>,
          index_blocks |-> [block |-> Block("index", <<>>), meta_blocks |-> <<>>],
          index_builder_status |-> "OK"]

\* A constructor that takes the table options as they are given.
SanitizedOptionsAsGiven(o) == o

\* The constructor: format_version 0 with a non-default checksum becomes
\* format_version 1; the filter builder gets StartBlock(0).
SanitizedOptions(o) ==
  IF o.format_version = 0 /\ o.checksum # "kCRC32c"
    THEN [o EXCEPT !.format_version = 1]
    ELSE o

NewRep(o) ==
  LET so == SanitizedOptions(o)
      ft == IF so.skip_filters THEN "none"
            ELSE CreateFilterBlockBuilder(so.filter_policy, so.partition_filters,
                                          so.index_type = "kTwoLevelIndexSearch")
      r  == [opt             |-> so,
             offset          |-> 0,
             status          |-> "OK",
             closed          |-> FALSE,
             data_block      |-> <<>>,
             range_del_block |-> <<>>,
             last_key        |-> 0,
             first_key       |-> 0,
             num_entries     |-> 0,
             num_data_blocks |-> 0,
             data_size       |-> 0,
             pending_handle  |-> UninitHandle,
             index_builder   |-> NewIndexBuilder(so.index_type),
             filter          |-> NewFilter(ft),
             file            |-> <<>>,
             cache           |-> {},
             ever_failed     |-> FALSE,
             verify_failed   |-> FALSE,
             asserted        |-> {},
             written         |-> <<>>,
             index_calls     |-> <<>>,
             ret             |-> [op |-> "new", code |-> "OK"],
             env             |-> NoFault,
             h               |-> UninitHandle,
             loc             |-> NoLoc]
  IN FilterCall(r, <<"StartBlock", 0>>)

\* What a call leaves behind: its locals and its environment are gone.
Return(r, op, code) ==
  [r EXCEPT !.ret = [op |-> op, code |-> code],
            !.env = NoFault, !.h = UninitHandle, !.loc = NoLoc]

\* A call that returns the status it has reached.
ReturnStatus(r, op) == Return(r, op, r.status)

\* A flush that does not tell the filter builder of the new block.
WriteDataBlockNoStartBlock(r) ==
  [r EXCEPT !.pending_handle = r.h, !.data_block = <<>>,
            !.data_size = r.offset, !.num_data_blocks = @ + 1]

\* lines 446-451: the data block is written and the next one begins
WriteDataBlock(r) ==
  [FilterCall([r EXCEPT !.pending_handle = r.h, !.data_block = <<>>],
              <<"StartBlock", r.offset>>)
     EXCEPT !.data_size = r.offset, !.num_data_blocks = @ + 1]

\* BlockBasedTableBuilder::Flush
Flush(r) ==
  LET r0 == IF r.closed THEN [r EXCEPT !.asserted = @ \cup {"Flush:closed"}] ELSE r
  IN IF ~Ok(r0) THEN r0
     ELSE IF r0.data_block = <<>> THEN r0
     ELSE WriteDataBlock(WriteBlock(r0, Block("data", r0.data_block), TRUE))

\* BlockBasedTableBuilder::Add, a point entry, by its steps.
\* lines 385-389: the order of the keys, or the first key
CheckKeyOrder(r, key) ==
  IF r.num_entries > 0
    THEN (IF key > r.last_key THEN r
          ELSE [r EXCEPT !.asserted = @ \cup {"Add:order"}])
    ELSE [r EXCEPT !.first_key = key]

\* An index entry that is added whatever the status Flush() has left.
AddPendingIndexEntryUnchecked(r, key, part_flush) ==
  [IndexAddEntry(r, r.last_key, key, r.pending_handle, part_flush)
     EXCEPT !.first_key = key]

\* lines 403-406: the index entry of the block that Flush() has written
AddPendingIndexEntry(r, key, part_flush) ==
  IF Ok(r)
    THEN [IndexAddEntry(r, r.last_key, key, r.pending_handle, part_flush)
            EXCEPT !.first_key = key]
    ELSE r

\* lines 409-419: filter, last key, data block and properties
AddToDataBlock(r, key) ==
  [FilterAdd(r, key) EXCEPT !.last_key = key,
                            !.data_block = Append(@, key),
                            !.num_entries = @ + 1]

AddValue(r, key, should_flush, part_flush) ==
  AddToDataBlock(
    IF should_flush
      THEN AddPendingIndexEntry(Flush(CheckKeyOrder(r, key)), key, part_flush)
      ELSE CheckKeyOrder(r, key),
    key)

\* BlockBasedTableBuilder::Add, a range deletion.
AddRangeDeletion(r, key) ==
  [r EXCEPT !.range_del_block = Append(@, key), !.num_entries = @ + 1]

AddOp(r, key, is_value, should_flush, part_flush) ==
  IF ~Ok(r) THEN Return(r, "Add", r.status)
  ELSE IF is_value
         THEN Return(AddValue(r, key, should_flush, part_flush), "Add", "OK")
         ELSE Return(AddRangeDeletion(r, key), "Add", "OK")

\* ---- BlockBasedTableBuilder::Finish, by its parts
\* lines 630-633
FlushAndClose(r) == [Flush(r) EXCEPT !.closed = TRUE]

\* lines 638-643: the index entry of the last data block
AddLastIndexEntry(r, empty_data_block) ==
  [(IF Ok(r) /\ ~empty_data_block
      THEN IndexAddEntry(r, r.last_key, 0, r.pending_handle, FALSE)
      ELSE r)
     EXCEPT !.first_key = 0]

\* line 653: the filter block just written is at filter_block_handle
SetFilterHandle(r) == [r EXCEPT !.loc.filter_h = r.h]

\* lines 648-654: the loop over the filter block(s)
RECURSIVE FilterLoop(_)
FilterLoopWhile(r, s) == IF s = "Incomplete" THEN FilterLoop(r) ELSE r

FilterLoop(r) ==
  LET res == FilterFinish(r)
  IN FilterLoopWhile(
       SetFilterHandle(WriteRawBlock(res.r, res.block, "kNoCompression")),
       res.status)

\* lines 646-655
WriteFilterBlocks(r) ==
  IF Ok(r) /\ r.filter.type # "none" THEN FilterLoop(r) ELSE r

\* lines 657-658 and 773: a call of index_builder->Finish with the handle
\* of the block written last; its results go to the locals.
FinishIndexBuilder(r, handle) ==
  LET res == IndexFinish(r, handle)
  IN [r EXCEPT !.index_builder = res.ib,
               !.asserted = @ \cup IndexFinishAsserts(r),
               !.loc.index_builder_status = res.status,
               !.loc.index_blocks = [block |-> res.block,
                                     meta_blocks |-> res.meta_blocks]]

MetaIndexAdd(r, name, handle) ==
  [r EXCEPT !.loc.mib = Append(@, [name |-> name, handle |-> handle])]

\* meta_index_builder.Add(name, handle of the block written last)
MetaIndexAddWritten(r, name) == MetaIndexAdd(r, name, r.h)

\* lines 675-680: the meta blocks of the index builder
RECURSIVE WriteIndexMetaBlocks(_, _)
WriteIndexMetaBlocks(r, meta_blocks) ==
  IF meta_blocks = <<>> THEN r
  ELSE WriteIndexMetaBlocks(
         MetaIndexAddWritten(WriteBlock(r, meta_blocks[1].block, FALSE),
                             meta_blocks[1].name),
         Tail(meta_blocks))

WriteMetaBlocksOfIndex(r) ==
  WriteIndexMetaBlocks(r, r.loc.index_blocks.meta_blocks)

\* lines 683-696: the mapping to the filter block
AddFilterMapping(r) ==
  IF r.filter.type # "none" THEN MetaIndexAdd(r, "filter", r.loc.filter_h) ELSE r

\* lines 699-743: the properties block
WritePropertiesBlock(r) ==
  MetaIndexAddWritten(
    WriteRawBlock(r, Block("properties",
                           <<r.num_entries, r.num_data_blocks, r.data_size>>),
                  "kNoCompression"),
    "properties")

\* lines 746-751: the compression dictionary block
WriteCompressionDictBlock(r) ==
  IF r.opt.compression_dict
    THEN MetaIndexAddWritten(
           WriteRawBlock(r, Block("compression_dict", <<>>), "kNoCompression"),
           "compression_dict")
    ELSE r

\* lines 754-758: the range deletion block
WriteRangeDelBlock(r) ==
  IF Ok(r) /\ r.range_del_block # <<>>
    THEN MetaIndexAddWritten(
           WriteRawBlock(r, Block("range_del", r.range_del_block), "kNoCompression"),
           "range_del")
    ELSE r

\* lines 682-759: filter mapping, properties, compression dictionary and
\* range deletion blocks
WriteMetaBlocks(r) ==
  IF Ok(r)
    THEN WriteRangeDelBlock(
           WriteCompressionDictBlock(WritePropertiesBlock(AddFilterMapping(r))))
    ELSE r

\* lines 764-765: the meta-index block
SetMetaIndexHandle(r) == [r EXCEPT !.loc.metaindex_h = r.h]

WriteMetaIndexBlock(r) ==
  SetMetaIndexHandle(
    WriteRawBlock(r, Block("metaindex", r.loc.mib), "kNoCompression"))

\* lines 768-769 and 777-778: the index block that index_blocks holds
SetIndexHandle(r) == [r EXCEPT !.loc.index_h = r.h]

WriteIndexBlock(r) ==
  SetIndexHandle(WriteBlock(r, r.loc.index_blocks.block, FALSE))

\* lines 772-780: the remaining index partitions and the top-level index
RECURSIVE IndexLoop(_)
IndexLoop(r) ==
  IF r.loc.index_builder_status # "Incomplete" THEN r
  ELSE IndexLoop(WriteIndexBlock(FinishIndexBuilder(r, r.loc.index_h)))

\* The index block(s) written ahead of the meta-index block.
WriteIndexBlocksFirst(r) ==
  IF Ok(r) THEN WriteMetaIndexBlock(IndexLoop(WriteIndexBlock(r))) ELSE r

\* lines 762-781: meta-index block and index block(s)
WriteIndexBlocks(r) ==
  IF Ok(r) THEN IndexLoop(WriteIndexBlock(WriteMetaIndexBlock(r))) ELSE r

\* lines 784-808: the footer
FooterOf(r) ==
  LET legacy == r.opt.format_version = 0
  IN [kind |-> "footer",
      magic |-> IF legacy THEN "kLegacyBlockBasedTableMagicNumber"
                          ELSE "kBlockBasedTableMagicNumber",
      version |-> r.opt.format_version,
      checksum |-> r.opt.checksum,
      metaindex_handle |-> r.loc.metaindex_h,
      index_handle |-> r.loc.index_h,
      len |-> IF legacy THEN kVersion0EncodedLength ELSE kNewVersionsEncodedLength]

FooterAppended(r, f) == IF Ok(r) THEN [r EXCEPT !.offset = @ + f.len] ELSE r

WriteFooter(r) ==
  IF Ok(r)
    THEN FooterAppended(
           FileAppend(r, [part |-> "footer", len |-> FooterOf(r).len,
                          block |-> FooterOf(r), type |-> "kNoCompression"]),
           FooterOf(r))
    ELSE r

FinishBody(r) ==
  WriteFooter(
    WriteIndexBlocks(
      WriteMetaBlocks(
        WriteMetaBlocksOfIndex(
          FinishIndexBuilder(
            WriteFilterBlocks(AddLastIndexEntry(FlushAndClose(r), r.data_block = <<>>)),
            UninitHandle)))))

\* BlockBasedTableBuilder::Finish
FinishOp(r) == ReturnStatus(FinishBody(r), "Finish")

\* An Abandon() that writes the buffered data block out before it closes.
AbandonFlushing(r) == Return([Flush(r) EXCEPT !.closed = TRUE], "Abandon", "OK")

\* An Abandon() that forgets to mark the builder.
AbandonNotClosing(r) == Return(r, "Abandon", "OK")

\* BlockBasedTableBuilder::Abandon
AbandonOp(r) == Return([r EXCEPT !.closed = TRUE], "Abandon", "OK")

\* ---- the builder's caller and environment

\* Table options the builder is constructed with.
IndexTypes == {"kBinarySearch", "kHashSearch", "kTwoLevelIndexSearch"}

\* filter policy, partition_filters and skip_filters
FilterSetups(index_type) ==
  {[filter_policy |-> "null", partition_filters |-> FALSE, skip_filters |-> FALSE],
   [filter_policy |-> "block", partition_filters |-> FALSE, skip_filters |-> FALSE],
   [filter_policy |-> "bits", partition_filters |-> FALSE, skip_filters |-> FALSE]}
  \cup (IF index_type = "kTwoLevelIndexSearch"
          THEN {[filter_policy |-> "bits", partition_filters |-> TRUE,
                 skip_filters |-> FALSE]}
          ELSE {[filter_policy |-> "bits", partition_filters |-> TRUE,
                 skip_filters |-> TRUE]})

CompressionSetups ==
  {[compression_type |-> "kNoCompression", verify_compression |-> FALSE,
    block_cache_compressed |-> FALSE],
   [compression_type |-> "kSnappyCompression", verify_compression |-> TRUE,
    block_cache_compressed |-> TRUE],
   [compression_type |-> "kSnappyCompression", verify_compression |-> FALSE,
    block_cache_compressed |-> FALSE]}

\* format_version, checksum and whether a compression dictionary is given
FormatSetups ==
  {[format_version |-> 0, checksum |-> "kCRC32c", compression_dict |-> FALSE],
   [format_version |-> 0, checksum |-> "kxxHash", compression_dict |-> TRUE]}

ValidOptions ==
  UNION {
    {[index_type |-> it, filter_policy |-> fs.filter_policy,
      partition_filters |-> fs.partition_filters, skip_filters |-> fs.skip_filters,
      compression_type |-> cs.compression_type,
      verify_compression |-> cs.verify_compression,
      block_cache_compressed |-> cs.block_cache_compressed,
      compression_dict |-> fm.compression_dict,
      format_version |-> fm.format_version, checksum |-> fm.checksum] :
       fs \in FilterSetups(it), cs \in CompressionSetups, fm \in FormatSetups} :
    it \in IndexTypes}

\* A call that counts its file appends, compressions or cache insertions
\* (kind k) and meets no fault.
Counting(r, k) == [r EXCEPT !.env = [kind |-> k, at |-> 0, how |-> "none"]]

Counted(r) == 0 - r.env.at

\* The single faults a call can meet that makes the given numbers of file
\* appends, compressions and cache insertions when nothing fails.
Faults(appends, codecs, inserts) ==
  {NoFault}
  \cup {[kind |-> "append", at |-> i, how |-> "none"] : i \in 1..appends}
  \cup {[kind |-> "codec", at |-> i, how |-> d] : i \in 1..codecs, d \in CodecDeviations}
  \cup {[kind |-> "oom", at |-> i, how |-> "none"] : i \in 1..inserts}

FlushFaults(r) ==
  Faults(Counted(Flush(Counting(r, "append"))),
         Counted(Flush(Counting(r, "codec"))),
         Counted(Flush(Counting(r, "oom"))))

FinishFaults(r) ==
  Faults(Counted(FinishBody(Counting(r, "append"))),
         Counted(FinishBody(Counting(r, "codec"))),
         Counted(FinishBody(Counting(r, "oom"))))

\* ------------------------------------------------ the index builder's caller
\* The caller follows BlockBasedTableBuilder: one AddIndexEntry per data
\* block with increasing keys, the last one without a next key, then the
\* Finish loop of Finish() (lines 657-666 and 770-781), in which the block a
\* call hands out is written and its handle passed to the next call.
\*   sealed   - what the caller expects to have been sealed so far
\*   inflight - last keys of the entries added since the last seal
DrvInit ==
  [phase    |-> "adding",
   next     |-> 0,
   sealed   |-> <<>>,
   inflight |-> <<>>,
   cuts     |-> 0,
   results  |-> <<>>,
   handed   |-> <<>>,
   passed   |-> <<>>,
   op       |-> "new"]

\* A table builder constructed with any of the valid options; the index
\* builder of the second specification and its caller stay as constructed.
BuilderInit ==
  /\ rep \in {NewRep(o) : o \in ValidOptions}
  /\ pib = NewPartitionedIndexBuilder
  /\ drv = DrvInit
  /\ io = NoCall

\* The caller adds point keys in increasing order (only their order is
\* read, so each new key is the next integer) and range deletions at any
\* time; should_flush is the answer of the flush block policy, which cuts
\* only a non-empty block, part_flush the answer of the flush policy of the
\* partitioned index.
Add ==
  /\ ~rep.closed
  /\ \E key \in 1..MaxKey, is_value, should_flush, part_flush \in BOOLEAN :
       /\ is_value => key = rep.last_key + 1
       /\ ~is_value => key = 1 /\ Len(rep.range_del_block) < MaxRangeDel
       /\ should_flush => is_value /\ rep.data_block # <<>>
       /\ part_flush => should_flush /\ rep.opt.index_type = "kTwoLevelIndexSearch"
       /\ \E env \in IF should_flush THEN FlushFaults(rep) ELSE {NoFault} :
            rep' = AddOp([rep EXCEPT !.env = env], key, is_value, should_flush,
                         part_flush)
  /\ UNCHANGED <<pib, drv, io>>

Finish ==
  /\ ~rep.closed
  /\ \E env \in FinishFaults(rep) :
       rep' = FinishOp([rep EXCEPT !.env = env])
  /\ UNCHANGED <<pib, drv, io>>

Abandon ==
  /\ ~rep.closed
  /\ rep' = AbandonOp(rep)
  /\ UNCHANGED <<pib, drv, io>>

Next == Add \/ Finish \/ Abandon

Handles == {BlockHandle(o, 1) : o \in 0..MaxOff}

DrvAfterAdd(d, last_key, next_key, do_flush) ==
  IF next_key = 0
    THEN [d EXCEPT !.sealed = Append(@, last_key), !.inflight = <<>>,
                   !.next = 0, !.phase = "added", !.op = "AddLast"]
    ELSE IF do_flush /\ d.inflight # <<>>
      THEN [d EXCEPT !.sealed = Append(@, Last(d.inflight)),
                     !.inflight = <<last_key>>, !.next = next_key, !.op = "Add"]
      ELSE [d EXCEPT !.inflight = Append(@, last_key), !.next = next_key,
                     !.op = "Add"]

IdxAddIndexEntry ==
  /\ drv.phase = "adding"
  /\ \E last_key \in 1..MaxIndexKey, next_key \in 0..MaxIndexKey, h \in Handles,
        do_flush \in BOOLEAN :
       /\ drv.next # 0 => last_key >= drv.next
       /\ drv.next = 0 => drv.inflight = <<>>
       /\ next_key # 0 => next_key > last_key
       /\ pib' = PIBAddIndexEntry(pib, last_key, next_key, h, do_flush)
       /\ drv' = DrvAfterAdd(drv, last_key, next_key, do_flush)
  /\ UNCHANGED <<rep, io>>

\* The partitioned filter builder polls the cut signal.
IdxShouldCutFilterBlock ==
  /\ drv.phase \in {"adding", "added"}
  /\ pib.cut_filter_block
  /\ pib' = PIBShouldCutFilterBlock(pib)
  /\ drv' = [drv EXCEPT !.cuts = @ + 1, !.op = "Cut"]
  /\ UNCHANGED <<rep, io>>

DrvAfterFinish(d, res, passed) ==
  [d EXCEPT !.results = Append(@, res.status),
            !.handed  = Append(@, res.contents),
            !.passed  = passed,
            !.phase   = IF res.status = "Incomplete" THEN "finishing" ELSE "done",
            !.op      = "Finish"]

\* r->index_builder->Finish(&index_blocks), line 658.  The call is made
\* with no sub-index in flight (the assertion of line 139).
IdxFinishFirst ==
  /\ drv.phase \in {"adding", "added"}
  /\ pib.sub_index_builder_.isnull
  /\ LET res == PIBFinish(pib, kNullBlockHandle)
     IN /\ pib' = res.ib
        /\ drv' = DrvAfterFinish(drv, res, drv.passed)
  /\ UNCHANGED <<rep, io>>

\* One turn of the loop of lines 772-780: the block of the previous call
\* was written at handle h, which the next call receives.
IdxFinishNext ==
  /\ drv.phase = "finishing"
  /\ \E h \in Handles :
       LET res == PIBFinish(pib, h)
       IN /\ pib' = res.ib
          /\ drv' = DrvAfterFinish(drv, res, Append(drv.passed, h))
  /\ UNCHANGED <<rep, io>>

IndexInit ==
  /\ pib = NewPartitionedIndexBuilder
  /\ drv = DrvInit
  /\ rep = 0
  /\ io = NoCall

\* The table builder from construction to Finish() or Abandon().
Spec == BuilderInit /\ [][Next]_vars

\* ------------------------------------------------- claims C1-C4, C9, C10
CallReturned(op) == rep' # rep /\ rep'.ret.op = op

\* C1: the builder is open from construction; it is closed by Finish() and
\* by Abandon(), whatever they return, and by nothing else; the closed
\* flag is never cleared.
C1_OpenThenClosed ==
  /\ [](rep.ret.op = "new" => ~rep.closed)
  /\ [][/\ rep.closed => rep'.closed
        /\ (CallReturned("Finish") \/ CallReturned("Abandon")) => rep'.closed
        /\ (~rep.closed /\ rep'.closed) => rep'.ret.op \in {"Finish", "Abandon"}
        /\ CallReturned("Add") => ~rep'.closed]_vars

C1_Witness ==
  /\ rep.closed
  /\ rep.ret.op = "Finish"
  /\ rep.ret.code = "IOError"
  /\ rep.file # <<>>

\* C2 as stated: once a status assignment has made the builder's status
\* non-OK the status stays non-OK, and a call made with a non-OK status
\* appends nothing to the file.
C2_AsStated ==
  /\ [](rep.ever_failed => rep.status # "OK")
  /\ [][rep.status # "OK" => rep'.file = rep.file]_vars

\* C3 as stated: after a failed compression verification the builder's
\* status is Corruption and Finish() does not report success.
C3_AsStated ==
  rep.verify_failed =>
    /\ rep.status = "Corruption"
    /\ rep.ret.op = "Finish" => rep.ret.code # "OK"

\* The kinds of block in the order Finish() is to append them.
Rank(chunk) ==
  CASE chunk.part = "footer"                    -> 10
    [] chunk.part = "trailer"                   -> 0
    [] chunk.block.kind = "data"                -> 1
    [] chunk.block.kind \in {"filter", "filter_partition", "filter_index"} -> 2
    [] chunk.block.kind \in {"hash_prefixes", "hash_metadata"} -> 3
    [] chunk.block.kind = "properties"          -> 4
    [] chunk.block.kind = "compression_dict"    -> 5
    [] chunk.block.kind = "range_del"           -> 6
    [] chunk.block.kind = "metaindex"           -> 7
    [] chunk.block.kind = "index_partition"     -> 8
    [] chunk.block.kind \in {"index_top", "index"} -> 9

\* The contents and footer chunks of the file, trailers left out.
RECURSIVE Blocks(_)
Blocks(file) ==
  IF file = <<>> THEN <<>>
  ELSE IF file[1].part = "trailer" THEN Blocks(Tail(file))
  ELSE <<file[1]>> \o Blocks(Tail(file))

HasRank(file, n) == \E i \in 1..Len(file) : Rank(file[i]) = n

FinishedOK == rep.ret = [op |-> "Finish", code |-> "OK"]

\* C4: in the file of a Finish() that returned OK the blocks stand in the
\* order data, filter, properties, compression dictionary, range deletion,
\* meta-index, index partitions, top-level index, footer; a dictionary
\* block only with a dictionary configured, a range-deletion block only
\* with range deletions added; the footer is the last thing in the file;
\* and when no write failed on the way each of these blocks is there.
C4_FinishOrder ==
  FinishedOK =>
    LET b == Blocks(rep.file)
    IN /\ \A i \in 1..(Len(b) - 1) : Rank(b[i]) <= Rank(b[i + 1])
       /\ \A i \in 1..(Len(b) - 1) :
            Rank(b[i]) = Rank(b[i + 1]) => Rank(b[i]) \in {1, 2, 3, 8}
       /\ Last(rep.file).part = "footer"
       /\ HasRank(b, 5) => rep.opt.compression_dict
       /\ HasRank(b, 6) => rep.range_del_block # <<>>
       /\ ~rep.ever_failed =>
            /\ HasRank(b, 2) <=> rep.filter.type # "none"
            /\ HasRank(b, 4) /\ HasRank(b, 7) /\ HasRank(b, 9)
            /\ HasRank(b, 5) <=> rep.opt.compression_dict
            /\ HasRank(b, 6) <=> rep.range_del_block # <<>>
            /\ rep.opt.index_type = "kTwoLevelIndexSearch" =>
                 (HasRank(b, 8) <=> rep.num_data_blocks > 0)
            /\ rep.num_entries > Len(rep.range_del_block) =>
                 \E i \in 1..Len(b) :
                   /\ Rank(b[i]) = 1 /\ Rank(b[i + 1]) # 1
                   /\ Last(b[i].block.ents) = rep.last_key

C4_Witness ==
  /\ FinishedOK
  /\ ~rep.ever_failed
  /\ rep.opt.index_type = "kTwoLevelIndexSearch"
  /\ rep.filter.type = "partitioned"
  /\ rep.opt.compression_dict
  /\ rep.range_del_block # <<>>
  /\ rep.num_data_blocks = 3
  /\ Len(rep.index_builder.index_block_builder_) = 2

\* C9: a WriteRawBlock call that succeeds leaves in the handle the file
\* offset it found and the length of the contents, appends the contents and
\* then the 5-byte trailer with the type and the checksum over contents and
\* type, and moves the offset on by len + 5; the handle of each such block
\* is the handle of the previous one moved by its size + 5.
SuccessfulWrites == SelectSeq(rep.written, LAMBDA w : w.ok)

C9_WriteRawBlock ==
  /\ \A i \in 1..Len(rep.written) :
       LET w == rep.written[i]
       IN w.ok =>
            /\ w.handle = BlockHandle(w.before, w.block.len)
            /\ Len(rep.file) >= w.chunks + 2
            /\ rep.file[w.chunks + 1] =
                 [part |-> "contents", len |-> w.block.len, block |-> w.block,
                  type |-> w.type]
            /\ rep.file[w.chunks + 2].part = "trailer"
            /\ rep.file[w.chunks + 2].len = 5
            /\ rep.file[w.chunks + 2].type = w.type
            /\ rep.file[w.chunks + 2].block.over = <<w.block, w.type>>
            /\ (i < Len(rep.written) =>
                  rep.written[i + 1].before = w.before + w.block.len + 5)
            /\ (i = Len(rep.written) /\ rep.ret.op # "Finish" =>
                  rep.offset = w.before + w.block.len + 5)
  /\ LET sw == SuccessfulWrites
     IN \A i \in 1..(Len(sw) - 1) :
          sw[i + 1].handle.offset = sw[i].handle.offset + sw[i].handle.size + 5

C9_Witness ==
  /\ Len(SuccessfulWrites) >= 3
  /\ Len(rep.written) > Len(SuccessfulWrites)
  /\ \E i \in 1..Len(rep.written) :
       rep.written[i].ok /\ rep.written[i].type # "kNoCompression"

\* C10 as stated: FileSize() is the number of bytes appended to the file so
\* far, in every state of the builder.
C10_AsStated == rep.offset = SumLen(rep.file)


IndexNext ==
  \/ IdxAddIndexEntry
  \/ IdxShouldCutFilterBlock
  \/ IdxFinishFirst
  \/ IdxFinishNext

\* The index builder under a caller that may stop at any point.
SpecIndex == IndexInit /\ [][IndexNext]_vars

\* The caller's loop keeps calling while the status is Incomplete
\* (while (s.IsIncomplete()), line 772).
FairSpecIndex == SpecIndex /\ WF_vars(IdxFinishNext)

\* ------------------------------------------------------------ claims C5-C8
AllIncompleteThenOK(results, n) ==
  /\ Len(results) = n + 1
  /\ \A i \in 1..n : results[i] = "Incomplete"
  /\ results[n + 1] = "OK"

FinishReturned == Len(drv'.results) = Len(drv.results) + 1

\* C6: the Finish() loop terminates.  A call that returns Incomplete hands
\* out the partition at the head of the pending list, which no earlier call
\* handed out; every call after the first removes exactly one partition
\* from the pending list; Incomplete is never returned with an empty
\* pending list; and a loop that has begun reaches OK with the top-level
\* index.
C6_FinishLoopTerminates ==
  /\ [][FinishReturned =>
          /\ Last(drv'.results) = "Incomplete" =>
               /\ pib'.entries_ # <<>>
               /\ Last(drv'.handed) = SubFinish(pib'.entries_[1].value).contents
               /\ \A i \in 1..Len(drv.handed) : drv.handed[i] # Last(drv'.handed)
          /\ drv.results # <<>> => Len(pib'.entries_) = Len(pib.entries_) - 1
          /\ Last(drv'.results) = "OK" =>
               Last(drv'.handed) = [kind |-> "index_top",
                                    ents |-> pib'.index_block_builder_]]_vars
  /\ (drv.phase = "finishing") ~> (drv.phase = "done")

C6_Witness ==
  /\ drv.phase = "done"
  /\ Len(drv.results) = 3
  /\ pib.entries_ = <<>>

\* C7: when the loop ends with OK the top-level index has one entry per
\* sealed partition, in seal order; entry i carries the last key of
\* partition i and the handle passed to the call that followed the
\* Incomplete result which handed partition i out.
C7_TopLevelIndex ==
  (drv.phase = "done" /\ Len(drv.sealed) >= 1) =>
    /\ Len(pib.index_block_builder_) = Len(drv.sealed)
    /\ Len(drv.passed) = Len(drv.sealed)
    /\ \A i \in 1..Len(drv.sealed) :
         /\ pib.index_block_builder_[i] =
              [key |-> drv.sealed[i], handle |-> drv.passed[i]]
         /\ drv.handed[i].kind = "index_partition"
         /\ Last(drv.handed[i].ents).last_key = drv.sealed[i]

C7_Witness ==
  /\ drv.phase = "done"
  /\ Len(drv.sealed) = 2
  /\ Len(drv.handed[1].ents) = 2
  /\ drv.passed[1] # drv.passed[2]

\* C8: an AddIndexEntry call without a next key seals the active sub-index
\* in that call (a fresh one holding just this entry if none was active)
\* and leaves no sub-index in flight; every call that seals raises
\* cut_filter_block in the same call.
C8_LastEntrySeals ==
  [][/\ (drv.phase = "adding" /\ drv'.phase = "added") =>
          /\ Len(pib'.entries_) = Len(pib.entries_) + 1
          /\ pib'.sub_index_builder_.isnull
          /\ Len(Last(pib'.entries_).value.ents)
               = Len(pib.sub_index_builder_.ents) + 1
          /\ Last(Last(pib'.entries_).value.ents).next_key = 0
          /\ Last(pib'.entries_).key = Last(drv'.sealed)
     /\ Len(pib'.entries_) > Len(pib.entries_) => pib'.cut_filter_block
    ]_vars

C8_Witness ==
  /\ drv.phase = "added"
  /\ Len(pib.entries_) = 2
  /\ Len(pib.entries_[1].value.ents) = 1
  /\ Len(pib.entries_[2].value.ents) = 2
  /\ pib.cut_filter_block
  /\ drv.cuts = 1

\* ========================================================= format layer
\* ---- util/coding.h, on sequences of bytes
Zeros(n) == [i \in 1..n |-> 0]

\* dst->resize(n): cut, or pad with zero bytes
Resize(bytes, n) ==
  IF Len(bytes) >= n THEN SubSeq(bytes, 1, n)
                     ELSE bytes \o Zeros(n - Len(bytes))

\* the last n bytes (Slice::remove_prefix(size() - n))
Suffix(bytes, n) == SubSeq(bytes, Len(bytes) - n + 1, Len(bytes))

PutFixed32(v) ==
  <<v % 256, (v \div 256) % 256, (v \div 65536) % 256, (v \div 16777216) % 256>>

PutFixed64(v) == PutFixed32(v) \o Zeros(4)

DecodeFixed32(b) == b[1] + 256 * b[2] + 65536 * b[3] + 16777216 * b[4]

\* The values of this model stay below 2^31, so the high half is zero.
DecodeFixed64(b) == DecodeFixed32(b)

RECURSIVE PutVarint64(_)
PutVarint64(v) ==
  IF v < 128 THEN <<v>> ELSE <<128 + (v % 128)>> \o PutVarint64(v \div 128)

\* GetVarint64Ptr / GetVarint32Ptr: at most max bytes, each but the last
\* with its high bit set; n counts the bytes taken so far.  A failed call
\* leaves the input where it was.
RECURSIVE GetVarint(_, _, _)
GetVarint(input, n, max) ==
  IF input = <<>> \/ n >= max
    THEN [ok |-> FALSE, value |-> 0, rest |-> input]
    ELSE IF input[1] < 128
           THEN [ok |-> TRUE, value |-> input[1], rest |-> Tail(input)]
           ELSE LET r == GetVarint(Tail(input), n + 1, max)
                IN [ok    |-> r.ok,
                    value |-> (input[1] - 128) + 128 * r.value,
                    rest  |-> r.rest]

VarintRead(input, max) ==
  LET r == GetVarint(input, 0, max)
  IN IF r.ok THEN r ELSE [ok |-> FALSE, value |-> 0, rest |-> input]

GetVarint64(input) == VarintRead(input, 10)

GetVarint32(input) == VarintRead(input, 5)

\* ---- BlockHandle
\* BlockHandle::EncodeTo; the sentinel ~0 (-1 here) takes ten bytes.
VarintOfField(v) ==
  IF v = -1 THEN <<255, 255, 255, 255, 255, 255, 255, 255, 255, 1>>
            ELSE PutVarint64(v)

BlockHandleEncodeTo(h) == VarintOfField(h.offset) \o VarintOfField(h.size)

\* A decode that keeps what it had decoded when the size is bad.
BlockHandleDecodeFromNoReset(h, input) ==
  LET o == GetVarint64(input)
      z == GetVarint64(o.rest)
  IN IF o.ok /\ z.ok
       THEN [status |-> "OK", handle |-> BlockHandle(o.value, z.value),
             input |-> z.rest]
       ELSE [status |-> "Corruption",
             handle |-> IF o.ok THEN BlockHandle(o.value, h.size) ELSE h,
             input |-> o.rest]

\* BlockHandle::DecodeFrom on the handle h: status, the handle afterwards
\* and the input left.
BlockHandleDecodeFrom(h, input) ==
  LET o == GetVarint64(input)
      z == GetVarint64(o.rest)
  IN IF o.ok /\ z.ok
       THEN [status |-> "OK", handle |-> BlockHandle(o.value, z.value),
             input |-> z.rest]
       ELSE [status |-> "Corruption", handle |-> BlockHandle(0, 0),
             input |-> o.rest]

\* ---- Footer
\* A 64-bit magic number is its eight bytes, low byte first, which is how
\* the footer stores it (two PutFixed32 of its halves).
kLegacyBlockBasedTableMagicNumber == <<87, 251, 128, 139, 36, 117, 71, 219>>
kBlockBasedTableMagicNumber == <<247, 207, 244, 133, 183, 65, 226, 136>>
kLegacyPlainTableMagicNumber == <<176, 19, 143, 122, 235, 24, 52, 79>>
kPlainTableMagicNumber == <<100, 149, 191, 99, 150, 34, 66, 130>>
\* Only its being different from the others is read.
kExtentBasedTableMagicNumber == <<225, 195, 178, 166, 216, 25, 134, 86>>
kInvalidTableMagicNumber == Zeros(8)

kMagicNumberLengthByte == 8
kVersion3EncodedLength == 65
kMinEncodedLength == kVersion0EncodedLength
kMaxEncodedLength == kVersion3EncodedLength
\* BlockHandle::kMaxEncodedLength: two varint64
kMaxHandleEncodedLength == 20

\* ChecksumType as stored in the footer
kNoChecksum == 0
kCRC32c == 1
kxxHash == 2

IsLegacyFooterFormat(magic_number) ==
  \/ magic_number = kLegacyBlockBasedTableMagicNumber
  \/ magic_number = kLegacyPlainTableMagicNumber

\* A legacy magic number that is let through as it is.
UpconvertKeepsLegacy(magic_number) == magic_number

\* The result 0 of the last line (after assert(false)) is the invalid magic.
UpconvertLegacyFooterFormat(magic_number) ==
  IF magic_number = kLegacyBlockBasedTableMagicNumber
    THEN kBlockBasedTableMagicNumber
    ELSE IF magic_number = kLegacyPlainTableMagicNumber
           THEN kPlainTableMagicNumber
           ELSE kInvalidTableMagicNumber

\* Footer::Footer(magic, valid_size, next_extent, version); the constructor
\* without valid_size and next_extent leaves them at 0 here.
NewFooter(magic, valid_size, next_extent, version) ==
  [table_magic_number |-> magic,
   version            |-> version,
   checksum           |-> kCRC32c,
   valid_size         |-> valid_size,
   next_extent        |-> next_extent,
   metaindex_handle   |-> UninitHandle,
   index_handle       |-> UninitHandle]

\* The footer a decode starts from.
EmptyFooter == NewFooter(kInvalidTableMagicNumber, 0, 0, 0)

FooterHandles(f) ==
  BlockHandleEncodeTo(f.metaindex_handle) \o BlockHandleEncodeTo(f.index_handle)

\* An encoding that writes the index handle ahead of the meta-index handle.
FooterEncodeToIndexFirst(f) ==
  LET handles == BlockHandleEncodeTo(f.index_handle)
                 \o BlockHandleEncodeTo(f.metaindex_handle)
  IN IF IsLegacyFooterFormat(f.table_magic_number)
       THEN Resize(handles, 2 * kMaxHandleEncodedLength) \o f.table_magic_number
       ELSE IF f.table_magic_number = kBlockBasedTableMagicNumber
         THEN Resize(<<f.checksum>> \o handles, kNewVersionsEncodedLength - 12)
              \o PutFixed32(f.version) \o f.table_magic_number
         ELSE Resize(PutFixed32(f.valid_size) \o PutFixed64(f.next_extent)
                       \o <<f.checksum>> \o handles,
                     kVersion3EncodedLength - 12)
              \o PutFixed32(f.version) \o f.table_magic_number

\* Footer::EncodeTo
FooterEncodeTo(f) ==
  IF IsLegacyFooterFormat(f.table_magic_number)
    THEN Resize(FooterHandles(f), 2 * kMaxHandleEncodedLength)
         \o f.table_magic_number
    ELSE IF f.table_magic_number = kBlockBasedTableMagicNumber
      THEN Resize(<<f.checksum>> \o FooterHandles(f), kNewVersionsEncodedLength - 12)
           \o PutFixed32(f.version) \o f.table_magic_number
      ELSE Resize(PutFixed32(f.valid_size) \o PutFixed64(f.next_extent)
                    \o <<f.checksum>> \o FooterHandles(f),
                  kVersion3EncodedLength - 12)
           \o PutFixed32(f.version) \o f.table_magic_number

\* The version field of a footer that is not legacy: the four bytes ahead
\* of the magic number.
VersionField(input) == DecodeFixed32(SubSeq(input, Len(input) - 11, Len(input) - 8))

\* The checksum type of a footer that is not legacy, with what it leaves.
DecodeChecksumType(d) ==
  LET c == GetVarint32(d.input)
  IN IF c.ok
       THEN [d EXCEPT !.footer.checksum = c.value, !.input = c.rest]
       ELSE [d EXCEPT !.status = "Corruption"]

\* Footer::DecodeFrom, lines 175-232: the magic number and the fields ahead
\* of the handles.  "abort" is the end of the process in abort().
DecodeLayout(input) ==
  LET read   == Suffix(input, kMagicNumberLengthByte)
      legacy == IsLegacyFooterFormat(read)
      magic  == IF legacy THEN UpconvertLegacyFooterFormat(read) ELSE read
      f      == [EmptyFooter EXCEPT !.table_magic_number = magic]
  IN IF legacy
       THEN [status |-> "OK",
             footer |-> [f EXCEPT !.version = 0, !.checksum = kCRC32c],
             input  |-> Suffix(input, kVersion0EncodedLength)]
     ELSE IF magic = kBlockBasedTableMagicNumber
       THEN IF Len(input) < kNewVersionsEncodedLength
              THEN [status |-> "Corruption",
                    footer |-> [f EXCEPT !.version = VersionField(input)],
                    input  |-> input]
              ELSE DecodeChecksumType(
                     [status |-> "OK",
                      footer |-> [f EXCEPT !.version = VersionField(input)],
                      input  |-> Suffix(input, kNewVersionsEncodedLength)])
     ELSE IF magic = kExtentBasedTableMagicNumber
       THEN IF Len(input) < kVersion3EncodedLength
              THEN [status |-> "Corruption",
                    footer |-> [f EXCEPT !.version = VersionField(input)],
                    input  |-> input]
              ELSE DecodeChecksumType(
                     [status |-> "OK",
                      footer |-> [f EXCEPT
                        !.version = VersionField(input),
                        !.valid_size = DecodeFixed32(
                           SubSeq(Suffix(input, kVersion3EncodedLength), 1, 4)),
                        !.next_extent = DecodeFixed64(
                           SubSeq(Suffix(input, kVersion3EncodedLength), 5, 12))],
                      input  |-> SubSeq(Suffix(input, kVersion3EncodedLength), 13,
                                        kVersion3EncodedLength)])
     ELSE [status |-> "abort", footer |-> f, input |-> input]

\* lines 234-237: the meta-index handle
DecodeMetaindexHandle(d) ==
  LET h == BlockHandleDecodeFrom(d.footer.metaindex_handle, d.input)
  IN IF d.status # "OK" THEN d
     ELSE [d EXCEPT !.status = h.status, !.footer.metaindex_handle = h.handle,
                    !.input = h.input]

\* lines 235-242: the index handle; what is left of the input after a
\* decode that went through is what follows the magic number: nothing.
DecodeIndexHandle(d) ==
  LET h == BlockHandleDecodeFrom(d.footer.index_handle, d.input)
  IN IF d.status # "OK" THEN d
     ELSE [d EXCEPT !.status = h.status, !.footer.index_handle = h.handle,
                    !.input = IF h.status = "OK" THEN <<>> ELSE h.input]

\* Footer::DecodeFrom
FooterDecodeFrom(input) ==
  DecodeIndexHandle(DecodeMetaindexHandle(DecodeLayout(input)))

\* ---- ReadFooterFromFile
\* storage::MAX_EXTENT_SIZE, 2 MB
MAX_EXTENT_SIZE == 2097152

\* A file is its length, the bytes of one region of it (the rest reads as
\* zero bytes) and whether reading it fails.
FileByte(file, i) ==
  IF i >= file.tail_at /\ i < file.tail_at + Len(file.tail)
    THEN file.tail[i - file.tail_at + 1]
    ELSE 0

ReadCount(file, offset, n) ==
  IF offset >= file.len THEN 0
  ELSE IF offset + n <= file.len THEN n ELSE file.len - offset

\* RandomAccessFileReader::Read(offset, n): the status and the bytes read,
\* fewer than n at the end of the file.
FileRead(file, offset, n) ==
  IF file.fails
    THEN [status |-> "IOError", bytes |-> <<>>]
    ELSE [status |-> "OK",
          bytes  |-> [k \in 1..ReadCount(file, offset, n) |->
                        FileByte(file, offset + k - 1)]]

\* line 280: the footer is always at the end of the extent
FooterReadOffset == MAX_EXTENT_SIZE - kMaxEncodedLength

\* lines 289-300: what is done with the bytes read
FooterOfInput(read, enforce_table_magic_number) ==
  LET d == FooterDecodeFrom(read.bytes)
  IN IF read.status # "OK" THEN [status |-> read.status, footer |-> EmptyFooter]
     ELSE IF Len(read.bytes) < kMinEncodedLength
       THEN [status |-> "Corruption", footer |-> EmptyFooter]
     ELSE IF d.status # "OK" THEN [status |-> d.status, footer |-> d.footer]
     ELSE IF /\ enforce_table_magic_number # kInvalidTableMagicNumber
             /\ enforce_table_magic_number # d.footer.table_magic_number
       THEN [status |-> "Corruption", footer |-> d.footer]
     ELSE [status |-> "OK", footer |-> d.footer]

\* A ReadFooterFromFile that looks for the footer at the end of the file.
ReadFooterFromFileAtEnd(file, file_size, enforce_table_magic_number) ==
  IF file_size < kMinEncodedLength
    THEN [status |-> "Corruption", footer |-> EmptyFooter, read_offset |-> -1,
          read |-> [status |-> "none", bytes |-> <<>>]]
    ELSE [read_offset |-> file_size - kMaxEncodedLength,
          read |-> FileRead(file, file_size - kMaxEncodedLength, kMaxEncodedLength)]
         @@ FooterOfInput(FileRead(file, file_size - kMaxEncodedLength,
                                   kMaxEncodedLength),
                          enforce_table_magic_number)

\* ReadFooterFromFile: status, footer, and the read it made (read_offset -1:
\* none).
ReadFooterFromFile(file, file_size, enforce_table_magic_number) ==
  IF file_size < kMinEncodedLength
    THEN [status |-> "Corruption", footer |-> EmptyFooter, read_offset |-> -1,
          read |-> [status |-> "none", bytes |-> <<>>]]
    ELSE [read_offset |-> FooterReadOffset,
          read |-> FileRead(file, FooterReadOffset, kMaxEncodedLength)]
         @@ FooterOfInput(FileRead(file, FooterReadOffset, kMaxEncodedLength),
                          enforce_table_magic_number)

\* ---- the callers of the footer codec: each behaviour is one call
\* Offsets and sizes at the edges of the varint lengths 1..MaxFieldBytes.
FieldValues ==
  {0} \cup UNION {{128^k - 1, 128^k} : k \in 1..(MaxFieldBytes - 1)}

FooterHandleSet == {BlockHandle(o, z) : o \in FieldValues, z \in {1, 128}}

\* The footers of the three layouts (and of the legacy plain table magic).
FootersWithoutHandles ==
  {NewFooter(m, 0, 0, 0) :
     m \in {kLegacyBlockBasedTableMagicNumber, kLegacyPlainTableMagicNumber}}
  \cup {[NewFooter(kBlockBasedTableMagicNumber, 0, 0, v) EXCEPT !.checksum = c] :
          v \in {1, 2}, c \in {kNoChecksum, kCRC32c, kxxHash}}
  \cup {[NewFooter(kExtentBasedTableMagicNumber, vs, ne, 3) EXCEPT !.checksum = c] :
          vs \in {0, 4096}, ne \in {0, 7}, c \in {kCRC32c, kxxHash}}

ValidFooters ==
  {[f EXCEPT !.metaindex_handle = mh, !.index_handle = ih] :
     f \in FootersWithoutHandles, mh \in FooterHandleSet, ih \in FooterHandleSet}

\* Bytes that are not the encoding of a footer: e with one thing changed.
WithHighBit(bytes, i) == [bytes EXCEPT ![i] = 128 + (@ % 128)]

Damaged(e, how) ==
  CASE how = "none"        -> e
    [] how = "window"      -> Zeros(kMaxEncodedLength - Len(e)) \o e
    [] how = "unknown_magic" -> SubSeq(e, 1, Len(e) - 8) \o <<1>> \o Zeros(7)
    [] how = "plain_magic" -> SubSeq(e, 1, Len(e) - 8) \o kPlainTableMagicNumber
    [] how = "cut"         -> Suffix(e, kMinEncodedLength)
    [] how = "first_byte"  -> WithHighBit(e, 1)
    [] how = "handles"     ->
         [i \in 1..Len(e) |->
            IF i > Len(e) - 12 - 2 * kMaxHandleEncodedLength /\ i <= Len(e) - 12
              THEN 128 ELSE e[i]]
    [] how = "index_handle" ->
         [i \in 1..Len(e) |->
            IF i > Len(e) - 12 - 2 * kMaxHandleEncodedLength + 6 /\ i <= Len(e) - 12
              THEN 128 ELSE e[i]]

Damages == {"none", "window", "unknown_magic", "plain_magic", "cut", "first_byte",
            "handles", "index_handle"}

\* Inputs of BlockHandle::DecodeFrom made from the encoding of a handle.
HandleInput(e, how) ==
  CASE how = "none"     -> e
    [] how = "more"     -> e \o <<7>>
    [] how = "cut"      -> SubSeq(e, 1, Len(e) - 1)
    [] how = "high_bit" -> WithHighBit(e, Len(e))
    [] how = "overlong" -> SubSeq(e, 1, Len(e) - 1) \o [i \in 1..10 |-> 128] \o <<1>>
    [] how = "empty"    -> <<>>

HandleDamages == {"none", "more", "cut", "high_bit", "overlong", "empty"}

\* Files: an extent with the footer at its end, the same cut short, and a
\* file that ends with its footer wherever its data ends.
FilesOf(e) ==
  {[len |-> MAX_EXTENT_SIZE - cut, tail |-> e,
    tail_at |-> MAX_EXTENT_SIZE - Len(e), fails |-> fl] :
     cut \in {0, 1, kMaxEncodedLength - kMinEncodedLength, kMaxEncodedLength},
     fl \in BOOLEAN}
  \cup {[len |-> 1000 + Len(e), tail |-> e, tail_at |-> 1000, fails |-> FALSE]}

FooterRoundTrip ==
  /\ io = NoCall
  /\ \E f \in ValidFooters :
       io' = [op |-> "FooterRoundTrip", footer |-> f,
              encoded |-> FooterEncodeTo(f),
              decoded |-> FooterDecodeFrom(FooterEncodeTo(f))]
  /\ UNCHANGED <<pib, drv, rep>>

FooterDecode ==
  /\ io = NoCall
  /\ \E f \in ValidFooters, how \in Damages :
       io' = [op |-> "FooterDecodeFrom", footer |-> f, how |-> how,
              input |-> Damaged(FooterEncodeTo(f), how),
              decoded |-> FooterDecodeFrom(Damaged(FooterEncodeTo(f), how))]
  /\ UNCHANGED <<pib, drv, rep>>

HandleDecode ==
  /\ io = NoCall
  /\ \E h \in FooterHandleSet, how \in HandleDamages,
        h0 \in {UninitHandle, BlockHandle(5, 6)} :
       io' = [op |-> "BlockHandleDecodeFrom", handle |-> h, how |-> how,
              before |-> h0,
              input |-> HandleInput(BlockHandleEncodeTo(h), how),
              decoded |-> BlockHandleDecodeFrom(
                            h0, HandleInput(BlockHandleEncodeTo(h), how))]
  /\ UNCHANGED <<pib, drv, rep>>

ReadFooter ==
  /\ io = NoCall
  /\ \E f \in {g \in ValidFooters : g.index_handle = BlockHandle(127, 1)},
        how \in {"none", "unknown_magic", "handles"},
        file_size \in {0, kMinEncodedLength - 1, kMinEncodedLength, MAX_EXTENT_SIZE},
        enforce \in {kInvalidTableMagicNumber, kBlockBasedTableMagicNumber,
                     kLegacyBlockBasedTableMagicNumber} :
       \E file \in FilesOf(Damaged(FooterEncodeTo(f), how)) :
         io' = [op |-> "ReadFooterFromFile", footer |-> f, how |-> how,
                file |-> file,
                file_size |-> file_size, enforce |-> enforce,
                result |-> ReadFooterFromFile(file, file_size, enforce)]
  /\ UNCHANGED <<pib, drv, rep>>

FormatInit ==
  /\ pib = NewPartitionedIndexBuilder
  /\ drv = DrvInit
  /\ rep = 0
  /\ io = NoCall

FormatNext == FooterRoundTrip \/ FooterDecode \/ HandleDecode \/ ReadFooter

\* The footer and block-handle codec under its callers.
SpecFormat == FormatInit /\ [][FormatNext]_vars

\* ---------------------------------------------------------- claims C15-C18, C20
\* The canonical magic number a legacy one stands for (spec, section 5).
CanonicalMagic(m) ==
  CASE m = <<87, 251, 128, 139, 36, 117, 71, 219>> -> <<247, 207, 244, 133, 183, 65, 226, 136>>
    [] m = <<176, 19, 143, 122, 235, 24, 52, 79>>  -> <<100, 149, 191, 99, 150, 34, 66, 130>>
    [] OTHER -> m

IsLegacyMagic(m) == CanonicalMagic(m) # m

\* C15 as stated: decoding the encoding of a footer of any supported layout
\* gives back a footer equal to the original in every field.
C15_AsStated ==
  io.op = "FooterRoundTrip" =>
    /\ io.decoded.status = "OK"
    /\ io.decoded.footer = io.footer

\* C15 amended: decoding the encoding of a footer of any supported layout
\* gives back the original in every field, except that the magic number of
\* a legacy footer comes back as the corresponding canonical magic number.
C15_FooterRoundTrip ==
  io.op = "FooterRoundTrip" =>
    /\ io.decoded.status = "OK"
    /\ io.decoded.input = <<>>
    /\ io.decoded.footer =
         [io.footer EXCEPT !.table_magic_number = CanonicalMagic(@)]

C15_Witness ==
  /\ io.op = "FooterRoundTrip"
  /\ io.footer.table_magic_number = <<225, 195, 178, 166, 216, 25, 134, 86>>
  /\ io.footer.valid_size = 4096
  /\ io.footer.metaindex_handle = BlockHandle(16384, 128)
  /\ io.footer.index_handle = BlockHandle(127, 1)
  /\ Len(io.encoded) = 65
  /\ io.decoded.status = "OK"

\* C16: a footer whose last 8 bytes are a legacy magic number decodes to the
\* corresponding canonical magic number, version 0 and CRC32C, with the two
\* handles taken from the legacy layout: the 48 bytes that end the input.
C16_LegacyDecode ==
  (/\ io.op = "FooterDecodeFrom"
   /\ io.how \in {"none", "window", "first_byte", "handles", "index_handle"}
   /\ IsLegacyMagic(io.footer.table_magic_number)) =>
    /\ io.decoded.footer.table_magic_number
         = CanonicalMagic(io.footer.table_magic_number)
    /\ io.decoded.footer.version = 0
    /\ io.decoded.footer.checksum = 1
    /\ io.how \in {"none", "window"} =>
         /\ io.decoded.status = "OK"
         /\ io.decoded.footer.metaindex_handle = io.footer.metaindex_handle
         /\ io.decoded.footer.index_handle = io.footer.index_handle
    /\ io.how \in {"handles", "index_handle"} =>
         io.decoded.status = "Corruption"

C16_Witness ==
  /\ io.op = "FooterDecodeFrom"
  /\ io.how = "window"
  /\ Len(io.input) = 65
  /\ io.footer.table_magic_number = <<87, 251, 128, 139, 36, 117, 71, 219>>
  /\ io.decoded.status = "OK"
  /\ io.decoded.footer.table_magic_number = <<247, 207, 244, 133, 183, 65, 226, 136>>
  /\ io.decoded.footer.metaindex_handle = BlockHandle(16384, 128)

\* The magic numbers Footer::DecodeFrom knows.
RecognizedMagic(m) ==
  \/ IsLegacyMagic(m)
  \/ m = <<247, 207, 244, 133, 183, 65, 226, 136>>
  \/ m = <<225, 195, 178, 166, 216, 25, 134, 86>>

\* C17 as stated: decoding a footer whose magic number is not recognized
\* ends in a Corruption status returned to the caller of the decode and of
\* ReadFooterFromFile.
C17_AsStated ==
  /\ (/\ io.op = "FooterDecodeFrom"
      /\ ~RecognizedMagic(Suffix(io.input, 8))) =>
       io.decoded.status = "Corruption"
  /\ (/\ io.op = "ReadFooterFromFile"
      /\ io.result.read.status = "OK"
      /\ Len(io.result.read.bytes) >= 48
      /\ ~RecognizedMagic(Suffix(io.result.read.bytes, 8))) =>
       io.result.status = "Corruption"

\* C18: when two complete varint64 cannot be read, BlockHandle::DecodeFrom
\* returns Corruption and the handle is (0,0), whatever it was and whether
\* or not the offset could be decoded; otherwise it returns the handle.
C18_HandleDecode ==
  io.op = "BlockHandleDecodeFrom" =>
    /\ io.how \in {"none", "more"} =>
         /\ io.decoded.status = "OK"
         /\ io.decoded.handle = io.handle
    /\ io.how \in {"cut", "high_bit", "overlong", "empty"} =>
         /\ io.decoded.status = "Corruption"
         /\ io.decoded.handle = [offset |-> 0, size |-> 0]

\* The offset (three bytes) is decoded, the size is cut short.
C18_Witness ==
  /\ io.op = "BlockHandleDecodeFrom"
  /\ io.how = "cut"
  /\ io.handle = BlockHandle(16384, 128)
  /\ io.before = BlockHandle(5, 6)
  /\ io.input = <<128, 128, 1, 128>>
  /\ io.decoded.input = <<128>>
  /\ io.decoded.status = "Corruption"

\* C20: ReadFooterFromFile returns OK only if file_size is at least the
\* minimum footer length, the read returned at least that many bytes, the
\* footer in them decodes and the magic number, when one is enforced, is the
\* decoded one; the read is at MAX_EXTENT_SIZE - kMaxEncodedLength whatever
\* file_size is.
C20_ReadFooter ==
  io.op = "ReadFooterFromFile" =>
    /\ io.result.read_offset # -1 => io.result.read_offset = 2097152 - 65
    /\ io.result.read_offset = -1 => io.file_size < 48
    /\ io.result.status = "OK" =>
         /\ io.file_size >= 48
         /\ io.result.read.status = "OK"
         /\ Len(io.result.read.bytes) >= 48
         /\ io.how = "none"
         /\ io.file.len = 2097152
         /\ io.result.footer =
              [io.footer EXCEPT !.table_magic_number = CanonicalMagic(@)]
         /\ io.enforce # <<0, 0, 0, 0, 0, 0, 0, 0>> =>
              io.enforce = io.result.footer.table_magic_number

\* The footer is found in an extent although file_size is 48.
C20_Witness ==
  /\ io.op = "ReadFooterFromFile"
  /\ io.file_size = 48
  /\ io.file.len = 2097152
  /\ io.footer.table_magic_number = <<87, 251, 128, 139, 36, 117, 71, 219>>
  /\ io.enforce = <<247, 207, 244, 133, 183, 65, 226, 136>>
  /\ io.result.status = "OK"

\* ------------------------------------------------------------------ claim C19
\* C19: Abandon() closes the builder and writes nothing: the file, the
\* offset FileSize() returns and the buffered entries are as they were, no
\* block is flushed, and the file of an abandoned builder holds no footer.
C19_AbandonWritesNothing ==
  /\ [][CallReturned("Abandon") =>
          /\ rep'.closed
          /\ rep'.file = rep.file
          /\ rep'.offset = rep.offset
          /\ rep'.written = rep.written
          /\ rep'.data_block = rep.data_block
          /\ rep'.range_del_block = rep.range_del_block
          /\ rep'.num_data_blocks = rep.num_data_blocks]_vars
  /\ [](rep.ret.op = "Abandon" =>
          \A i \in 1..Len(rep.file) : rep.file[i].part # "footer")

\* Abandoned with a block written and entries still buffered.
C19_Witness ==
  /\ rep.ret.op = "Abandon"
  /\ rep.closed
  /\ rep.data_block # <<>>
  /\ rep.file # <<>>
  /\ rep.offset > 0

\* ============================================================ block reads
kNoCompression == 0

\* The value of a CompressionType in the type byte of a trailer.
CompressionTypeValue(type) ==
  CASE type = "kNoCompression"           -> kNoCompression
    [] type = "kSnappyCompression"       -> 1
    [] type = "kZlibCompression"         -> 2
    [] type = "kBZip2Compression"        -> 3
    [] type = "kLZ4Compression"          -> 4
    [] type = "kLZ4HCCompression"        -> 5
    [] type = "kXpressCompression"       -> 6
    [] type = "kZSTD"                    -> 7
    [] type = "kZSTDNotFinalCompression" -> 64

\* The type bytes UncompressBlockContentsForCompressionType has a case for.
DecompressedTypes == {1, 2, 3, 4, 5, 6, 7, 64}

\* The value of a ChecksumType in the footer.
ChecksumTypeValue(checksum) ==
  CASE checksum = "kNoChecksum" -> kNoChecksum
    [] checksum = "kCRC32c"     -> kCRC32c
    [] checksum = "kxxHash"     -> kxxHash

DefaultStackBufferSize == 5000

\* A byte with bit b (0..7) flipped.
FlipBit(byte, b) ==
  IF (byte \div 2^b) % 2 = 1 THEN byte - 2^b ELSE byte + 2^b

\* The bytes of a block as a reader holds them: the block the builder
\* appended, the first flipped bit of it (0: none), the type byte and the
\* four checksum bytes.
Bytes(c, flip) == [block |-> c, flip |-> flip]

\* crc32c::Value / XXH32 over the n bytes of data and the type byte: both
\* tell apart any two inputs of one length that differ in a single bit.
ChecksumValue(alg, data, type_byte) ==
  [alg |-> alg, over |-> <<data, type_byte>>, flip |-> 0]

\* Length of the first k chunks of a file.
RECURSIVE LengthOfChunks(_, _)
LengthOfChunks(file, k) ==
  IF k = 0 THEN 0 ELSE LengthOfChunks(file, k - 1) + file[k].len

\* The chunk that begins at an offset (0: none does).
ChunkAt(file, offset) ==
  IF \E k \in 1..Len(file) : LengthOfChunks(file, k - 1) = offset
    THEN CHOOSE k \in 1..Len(file) : LengthOfChunks(file, k - 1) = offset
    ELSE 0

\* The size + 5 bytes the file holds at a handle the builder gave out: the
\* contents and the trailer WriteRawBlock appended.
StoredPage(file, handle) ==
  LET k == ChunkAt(file, handle.offset)
  IN IF k = 0 \/ k + 1 > Len(file) \/ file[k].len # handle.size
       THEN [size |-> 0, data |-> Bytes(0, 0), type |-> 0, checksum |-> 0]
       ELSE [size     |-> handle.size + kBlockTrailerSize,
             data     |-> Bytes(file[k].block, 0),
             type     |-> CompressionTypeValue(file[k + 1].type),
             checksum |-> ChecksumValue(
                            file[k + 1].block.alg,
                            Bytes(file[k + 1].block.over[1], 0),
                            CompressionTypeValue(file[k + 1].block.over[2]))]

\* What has happened to the stored bytes of a block, or happens to a read
\* of them: one bit of the contents, of the type byte or of the checksum is
\* flipped, the read comes back short, or the read fails.
PageDamages ==
  {[kind |-> "none", bit |-> 0], [kind |-> "read_error", bit |-> 0],
   [kind |-> "checksum_bit", bit |-> 1], [kind |-> "short", bit |-> 1],
   [kind |-> "empty", bit |-> 0]}
  \cup {[kind |-> "data_bit", bit |-> b] : b \in {1, 8}}
  \cup {[kind |-> "type_bit", bit |-> b] : b \in 0..7}

\* file->read(handle.offset(), n + kBlockTrailerSize, ...)
FileReadPage(file, handle, damage) ==
  LET page == StoredPage(file, handle)
  IN CASE damage.kind = "read_error" ->
            [status |-> "IOError", page |-> [page EXCEPT !.size = 0]]
       [] damage.kind = "short" ->
            [status |-> "OK", page |-> [page EXCEPT !.size = @ - damage.bit]]
       [] damage.kind = "empty" ->
            [status |-> "OK", page |-> [page EXCEPT !.size = 0]]
       [] damage.kind = "data_bit" ->
            [status |-> "OK", page |-> [page EXCEPT !.data.flip = damage.bit]]
       [] damage.kind = "type_bit" ->
            [status |-> "OK",
             page |-> [page EXCEPT !.type = FlipBit(@, damage.bit)]]
       [] damage.kind = "checksum_bit" ->
            [status |-> "OK",
             page |-> [page EXCEPT !.checksum.flip = damage.bit]]
       [] OTHER -> [status |-> "OK", page |-> page]

\* lines 325-341: the checksum of the type and the block contents
VerifiedChecksum(page, checksum) ==
  IF checksum \notin {kCRC32c, kxxHash}
    THEN [status |-> "Corruption", msg |-> "unknown checksum type"]
    ELSE IF ChecksumValue(IF checksum = kCRC32c THEN "CRC32c" ELSE "xxHash",
                          page.data, page.type) # page.checksum
      THEN [status |-> "Corruption", msg |-> "block checksum mismatch"]
      ELSE [status |-> "OK", msg |-> ""]

\* A ReadBlock that takes whatever came back for the block.
ReadBlockAnyLength(read, n, checksum, verify_checksums) ==
  IF read.status # "OK" THEN [status |-> read.status, msg |-> ""]
  ELSE IF verify_checksums THEN VerifiedChecksum(read.page, checksum)
  ELSE [status |-> "OK", msg |-> ""]

\* A ReadBlock that never looks at the checksum.
ReadBlockUnverified(read, n, checksum, verify_checksums) ==
  IF read.status # "OK" THEN [status |-> read.status, msg |-> ""]
  ELSE IF read.page.size # n + kBlockTrailerSize
    THEN [status |-> "Corruption", msg |-> "truncated block read"]
  ELSE [status |-> "OK", msg |-> ""]

\* ReadBlock: read is what file->read gave, n is handle.size() and checksum
\* is footer.checksum().
ReadBlock(read, n, checksum, verify_checksums) ==
  IF read.status # "OK" THEN [status |-> read.status, msg |-> ""]
  ELSE IF read.page.size # n + kBlockTrailerSize
    THEN [status |-> "Corruption", msg |-> "truncated block read"]
  ELSE IF verify_checksums THEN VerifiedChecksum(read.page, checksum)
  ELSE [status |-> "OK", msg |-> ""]

\* BlockContents: data, whether it was decompressed, and compression_type.
BlockContents(data, decompressed, compression_type) ==
  [data |-> data, decompressed |-> decompressed,
   compression_type |-> compression_type]

NoContents == BlockContents(Bytes(0, 0), FALSE, -1)

\* UncompressBlockContentsForCompressionType: env.decoder is what the
\* library of the type makes of the bytes, env.malloc which allocation of
\* the call fails (0: none); mallocs counts the allocations made before.
UncompressBlockContentsForCompressionType(data, compression_type, env, mallocs) ==
  IF compression_type \notin DecompressedTypes
    THEN [status |-> "Corruption", msg |-> "bad block type",
          contents |-> NoContents]
  ELSE IF env.decoder = "rejects"
    THEN [status |-> "Corruption", msg |-> "not supported or corrupted",
          contents |-> NoContents]
  ELSE IF compression_type = 1 /\ env.malloc = mallocs + 1
    THEN [status |-> "MemoryLimit", msg |-> "", contents |-> NoContents]
  ELSE [status |-> "OK", msg |-> "",
        contents |-> BlockContents(data, TRUE, kNoCompression)]

\* lines 364-392: the lookups in the persistent cache.  c.pcache is "none",
\* "uncompressed" or "compressed"; env.lookup is what the cache answers.
\* The page a compressed-mode cache holds is the block as it was written.
LookupPersistentCache(file, handle, c) ==
  IF c.pcache = "uncompressed" /\ c.env.lookup = "hit"
    THEN [c EXCEPT !.done = TRUE, !.status = "OK",
                   !.contents = BlockContents(
                       Bytes(StoredPage(file, handle).data.block, 0),
                       FALSE, kNoCompression),
                   !.source = "uncompressed page", !.memory = "heap"]
  ELSE IF c.pcache = "compressed" /\ c.env.lookup = "hit"
    THEN [c EXCEPT !.status = "OK", !.page = StoredPage(file, handle),
                   !.used_buf = "heap", !.in_buf = TRUE,
                   !.source = "raw page"]
  ELSE [c EXCEPT !.status = "NotFound"]

\* lines 400-413: the buffer of a read from the device
ChooseBuffer(c, n) ==
  IF c.done \/ c.status = "OK" THEN c
  ELSE IF c.decompression_requested /\ n + kBlockTrailerSize < DefaultStackBufferSize
    THEN [c EXCEPT !.used_buf = "stack"]
  ELSE IF c.env.malloc = 1
    THEN [c EXCEPT !.done = TRUE, !.status = "MemoryLimit"]
  ELSE [c EXCEPT !.used_buf = "heap", !.mallocs = 1]

\* lines 414-425: ReadBlock on a cache miss, and the return of its failure
ReadFromDevice(file, handle, c) ==
  IF c.done \/ c.status = "OK" THEN c
  ELSE LET read == FileReadPage(file, handle, c.env.damage)
           s    == ReadBlock(read, handle.size, c.checksum, c.verify_checksums)
       IN [c EXCEPT !.status = s.status, !.msg = s.msg, !.page = read.page,
                    !.read = [status |-> read.status, size |-> read.page.size],
                    !.in_buf = c.env.in_buf, !.source = "file",
                    !.done = s.status # "OK"]

\* Contents that are handed back in the buffer the block was read into.
OwnedBufferInPlace(c) == c.used_buf

\* lines 438-449: the buffer the contents own is heap_buf, which holds a
\* copy of the block when the block was read into stack_buf.
OwnedBuffer(c) == IF c.used_buf = "stack" THEN "heap copy" ELSE "heap"

\* lines 427-452: the contents handed back; memory is where their bytes
\* are: in an allocation of the decompression, in the buffer of the file
\* reader, or in heap_buf.
HandBack(c, n) ==
  IF c.done THEN c
  ELSE IF c.decompression_requested /\ c.page.type # kNoCompression
    THEN LET u == UncompressBlockContentsForCompressionType(
                    c.page.data, c.page.type, c.env, c.mallocs)
         IN [c EXCEPT !.status = u.status, !.msg = u.msg,
                      !.contents = u.contents, !.done = TRUE,
                      !.memory = IF u.status = "OK" THEN "uncompressed" ELSE "none"]
  ELSE IF ~c.in_buf
    THEN [c EXCEPT !.contents = BlockContents(c.page.data, FALSE, c.page.type),
                   !.done = TRUE, !.memory = "file reader"]
  ELSE IF c.used_buf = "stack" /\ c.env.malloc = c.mallocs + 1
    THEN [c EXCEPT !.status = "MemoryLimit", !.done = TRUE]
  ELSE [c EXCEPT !.contents = BlockContents(c.page.data, FALSE, c.page.type),
                 !.done = TRUE, !.memory = OwnedBuffer(c)]

\* The locals of a ReadBlockContents call as it begins.
ReadCall(checksum, verify_checksums, decompression_requested, pcache, env) ==
  [checksum |-> checksum, verify_checksums |-> verify_checksums,
   decompression_requested |-> decompression_requested, pcache |-> pcache,
   env |-> env, done |-> FALSE, status |-> "OK", msg |-> "",
   contents |-> NoContents, source |-> "none", used_buf |-> "none",
   in_buf |-> TRUE, mallocs |-> 0, memory |-> "none",
   page |-> [size |-> 0, data |-> Bytes(0, 0), type |-> 0, checksum |-> 0],
   read |-> [status |-> "none", size |-> 0]]

\* ReadBlockContents
ReadBlockContents(file, handle, c) ==
  HandBack(
    ReadFromDevice(file, handle,
      ChooseBuffer(LookupPersistentCache(file, handle, c), handle.size)),
    handle.size)

\* ---- the caller of the block writer and of the block reader
MaxBlocks == 1

\* Raw block sizes below the stack buffer of the reader and above it.
BlockSizes == {16, DefaultStackBufferSize}

\* Raw block sizes around the limit of compression.
SizesAtLimit == {0, 7, 8, 9, kCompressionSizeLimit - 1, kCompressionSizeLimit}

RawBlock(n) == [Block("data", <<1>>) EXCEPT !.len = n]

BlockOptions ==
  {o \in ValidOptions : o.index_type = "kBinarySearch" /\ o.filter_policy = "null"}

BlockFaults ==
  {NoFault} \cup {[kind |-> "codec", at |-> 1, how |-> d] : d \in CodecDeviations}

\* What the environment of a read does: the damage, the answer of the
\* persistent cache, the allocation that fails, the verdict of the
\* decompression library and whether file->read filled the given buffer.
ReadEnvs(pcache) ==
  {[damage |-> d, lookup |-> l, malloc |-> m.malloc, decoder |-> m.decoder,
    in_buf |-> m.in_buf] :
     d \in PageDamages,
     l \in IF pcache = "none" THEN {"NotFound"} ELSE {"hit", "NotFound", "error"},
     m \in {[malloc |-> 0, decoder |-> "ok", in_buf |-> TRUE],
            [malloc |-> 1, decoder |-> "ok", in_buf |-> TRUE],
            [malloc |-> 2, decoder |-> "ok", in_buf |-> TRUE],
            [malloc |-> 0, decoder |-> "rejects", in_buf |-> TRUE],
            [malloc |-> 0, decoder |-> "ok", in_buf |-> FALSE]}}

\* WriteBlock up to its call of WriteRawBlock, on a block of any size.
ChooseBlock ==
  /\ io = NoCall
  /\ rep.ret.op = "new"
  /\ \E n \in SizesAtLimit \cup BlockSizes, env \in BlockFaults :
       io' = [op |-> "ChosenBlock", raw |-> RawBlock(n),
              codec |-> CodecResult([rep EXCEPT !.env = env], RawBlock(n)),
              stored |-> [contents |-> ChosenBlock([rep EXCEPT !.env = env],
                                                   RawBlock(n)).block_contents,
                          type |-> ChosenBlock([rep EXCEPT !.env = env],
                                               RawBlock(n)).type],
              status |-> ChosenBlock([rep EXCEPT !.env = env], RawBlock(n)).r.status]
  /\ UNCHANGED <<pib, drv, rep>>

BlockWrite ==
  /\ io.op \in {"none", "WriteBlock"}
  /\ Ok(rep)
  /\ Len(rep.written) < MaxBlocks
  /\ \E n \in BlockSizes,
        env \in BlockFaults \cup Faults(2, 0, 1) :
       /\ rep' = ReturnStatus(WriteBlock([rep EXCEPT !.env = env], RawBlock(n), TRUE),
                              "WriteBlock")
       /\ io' = [op |-> "WriteBlock", raw |-> RawBlock(n),
                 codec |-> CodecResult([rep EXCEPT !.env = env], RawBlock(n)),
                 stored |-> [contents |-> Last(rep'.written).block,
                             type |-> Last(rep'.written).type],
                 status |-> rep'.status]
  /\ UNCHANGED <<pib, drv>>

\* ReadBlock on a block the builder has written.
BlockRead ==
  /\ io.op = "WriteBlock"
  /\ \E i \in 1..Len(rep.written), d \in PageDamages,
        checksum \in {ChecksumTypeValue(rep.opt.checksum), kNoChecksum},
        verify_checksums \in BOOLEAN :
       /\ rep.written[i].ok
       /\ io' = [op |-> "ReadBlock", handle |-> rep.written[i].handle,
                 damage |-> d, checksum |-> checksum,
                 verify_checksums |-> verify_checksums,
                 read |-> FileReadPage(rep.file, rep.written[i].handle, d),
                 result |-> ReadBlock(
                              FileReadPage(rep.file, rep.written[i].handle, d),
                              rep.written[i].handle.size, checksum,
                              verify_checksums)]
  /\ UNCHANGED <<pib, drv, rep>>

\* ReadBlockContents on a block the builder has written, with the footer of
\* the builder's table.
BlockReadContents ==
  /\ io.op = "WriteBlock"
  /\ \E i \in 1..Len(rep.written), verify_checksums \in BOOLEAN,
        decompression_requested \in BOOLEAN,
        pcache \in {"none", "uncompressed", "compressed"} :
       \E env \in ReadEnvs(pcache) :
         /\ rep.written[i].ok
         /\ io' = [op |-> "ReadBlockContents", handle |-> rep.written[i].handle,
                   written |-> rep.written[i],
                   result |-> ReadBlockContents(
                                rep.file, rep.written[i].handle,
                                ReadCall(ChecksumTypeValue(rep.opt.checksum),
                                         verify_checksums, decompression_requested,
                                         pcache, env))]
  /\ UNCHANGED <<pib, drv, rep>>

BlockInit ==
  /\ rep \in {NewRep(o) : o \in BlockOptions}
  /\ pib = NewPartitionedIndexBuilder
  /\ drv = DrvInit
  /\ io = NoCall

BlockNext == ChooseBlock \/ BlockWrite \/ BlockRead \/ BlockReadContents

\* Blocks written by the builder and read back.
SpecBlock == BlockInit /\ [][BlockNext]_vars

\* -------------------------------------------------------- claims C11 - C14
\* The block WriteBlock stored, or was about to store, is compressed.
StoredCompressed == io.stored.contents.enc # "raw"

\* C11: with compression configured, a block is stored compressed exactly
\* when its raw size is below the limit (the largest 32-bit signed number),
\* the codec succeeds, compressed_size < raw_size - raw_size / 8 and, with
\* verification on, the output decompresses to the block; otherwise the raw
\* bytes are stored.
C11_CompressedExactlyWhen ==
  (/\ io.op \in {"ChosenBlock", "WriteBlock"}
   /\ rep.opt.compression_type # "kNoCompression") =>
    /\ StoredCompressed <=>
         /\ io.raw.len < 2147483647
         /\ io.codec.success
         /\ io.codec.size < io.raw.len - (io.raw.len \div 8)
         /\ rep.opt.verify_compression => io.codec.decodes = "same"
    /\ StoredCompressed =>
         /\ io.stored.contents.len = io.codec.size
         /\ io.stored.contents.enc = rep.opt.compression_type
    /\ ~StoredCompressed => io.stored.contents = io.raw

\* One byte below the limit and one byte better than seven eighths.
C11_Witness ==
  /\ io.op = "ChosenBlock"
  /\ io.raw.len = 2147483646
  /\ io.codec.size = 2147483646 - 268435455 - 1
  /\ StoredCompressed

\* The type goes with the bytes: "none" with raw bytes, any other type with
\* the output of that algorithm.
TypeGoesWith(c, type) ==
  /\ type = "kNoCompression" <=> c.enc = "raw"
  /\ type # "kNoCompression" => c.enc = type

\* C12: for every block the builder writes, the type byte of the trailer is
\* "none" exactly when the stored bytes are the raw block, and any other
\* type is written with the output of that algorithm, also when the codec
\* fails, the ratio is poor, the size is at the limit or verification fails.
C12_TypeByteAndBytes ==
  /\ io.op \in {"ChosenBlock", "WriteBlock"} =>
       /\ TypeGoesWith(io.stored.contents, io.stored.type)
       /\ io.stored.type = "kNoCompression" => io.stored.contents = io.raw
       /\ io.stored.type # "kNoCompression" =>
            io.stored.type = rep.opt.compression_type
  /\ \A i \in 1..Len(rep.written) :
       TypeGoesWith(rep.written[i].block, rep.written[i].type)
  /\ \A k \in 1..Len(rep.file) :
       /\ rep.file[k].part = "contents" =>
            TypeGoesWith(rep.file[k].block, rep.file[k].type)
       /\ rep.file[k].part = "trailer" =>
            /\ rep.file[k - 1].part = "contents"
            /\ TypeGoesWith(rep.file[k - 1].block, rep.file[k].type)

\* Verification has failed and the raw block is in the file with type none.
C12_Witness ==
  /\ io.op = "WriteBlock"
  /\ rep.verify_failed
  /\ io.codec.decodes = "differs"
  /\ Len(rep.file) = 2
  /\ rep.file[1].block = io.raw
  /\ rep.file[2].part = "trailer"
  /\ rep.file[2].type = "kNoCompression"

\* A read that got all the bytes of a block from the file, one bit of the
\* contents or of the type byte flipped.
FlippedRead(c) ==
  /\ c.source = "file"
  /\ c.read.status = "OK"
  /\ c.read.size = io.handle.size + 5
  /\ c.env.damage.kind \in {"data_bit", "type_bit"}

\* C13 as stated: after a flip of one bit of the stored bytes or of the
\* type byte of a block, a read with verify_checksums returns Corruption
\* and a read without it does not.
C13_AsStated ==
  /\ (io.op = "ReadBlock" /\ io.damage.kind \in {"data_bit", "type_bit"}) =>
       (io.result.status = "Corruption" <=> io.verify_checksums)
  /\ (io.op = "ReadBlockContents" /\ FlippedRead(io.result)) =>
       (io.result.status = "Corruption" <=> io.result.verify_checksums)

\* C13 amended: after a flip of one bit of the stored bytes or of the type
\* byte of a block, a read of it from the file with verify_checksums returns
\* Corruption; without verify_checksums ReadBlock returns OK, and
\* ReadBlockContents returns Corruption only when decompression is
\* requested, the type byte as read is not "none" and the decompression
\* rejects the type byte or the bytes.
C13_BitFlip ==
  /\ (io.op = "ReadBlock" /\ io.damage.kind \in {"data_bit", "type_bit"}) =>
       /\ io.verify_checksums => io.result.status = "Corruption"
       /\ ~io.verify_checksums => io.result.status = "OK"
  /\ (io.op = "ReadBlockContents" /\ FlippedRead(io.result)) =>
       /\ io.result.verify_checksums =>
            /\ io.result.status = "Corruption"
            /\ io.result.contents = [data |-> [block |-> 0, flip |-> 0],
                                     decompressed |-> FALSE,
                                     compression_type |-> -1]
       /\ (~io.result.verify_checksums /\ io.result.status = "Corruption") =>
            /\ io.result.decompression_requested
            /\ io.result.page.type # 0
            /\ \/ /\ io.result.msg = "bad block type"
                  /\ io.result.page.type \notin {1, 2, 3, 4, 5, 6, 7, 64}
               \/ /\ io.result.msg = "not supported or corrupted"
                  /\ io.result.env.decoder = "rejects"
       /\ (/\ ~io.result.verify_checksums
           /\ ~(io.result.decompression_requested /\ io.result.page.type # 0)) =>
            /\ io.result.status \in {"OK", "MemoryLimit"}
            /\ io.result.status = "OK" =>
                 io.result.contents =
                   [data |-> io.result.page.data, decompressed |-> FALSE,
                    compression_type |-> io.result.page.type]

\* A bit of a compressed block is flipped, nothing is verified and the
\* decompression rejects the bytes.
C13_Witness ==
  /\ io.op = "ReadBlockContents"
  /\ io.written.type = "kSnappyCompression"
  /\ io.result.env.damage = [kind |-> "data_bit", bit |-> 8]
  /\ ~io.result.verify_checksums
  /\ io.result.decompression_requested
  /\ io.result.source = "file"
  /\ io.result.status = "Corruption"

\* The read of a call came back with fewer bytes than handle.size + 5.
TruncatedRead(c) ==
  /\ c.source = "file"
  /\ c.read.status = "OK"
  /\ c.read.size < io.handle.size + 5

\* All bytes were read, checksums are verified and the checksum of the
\* trailer is not the one of the bytes.
MismatchedRead(c) ==
  /\ c.source = "file"
  /\ c.read.status = "OK"
  /\ c.read.size = io.handle.size + 5
  /\ c.verify_checksums
  /\ c.env.damage.kind \in {"data_bit", "type_bit", "checksum_bit"}

\* All bytes were read, they passed what was verified, and the type byte
\* is that of no compression type.
UnknownTypeRead(c) ==
  /\ c.source = "file"
  /\ c.read.status = "OK"
  /\ c.read.size = io.handle.size + 5
  /\ ~c.verify_checksums
  /\ c.page.type \notin {0, 1, 2, 3, 4, 5, 6, 7, 64}

\* C14 as stated: ReadBlockContents returns Corruption, and not OK, for a
\* block whose read was truncated, whose checksum does not match under
\* verification, or whose type byte names no known compression type.
C14_AsStated ==
  (/\ io.op = "ReadBlockContents"
   /\ \/ TruncatedRead(io.result)
      \/ MismatchedRead(io.result)
      \/ UnknownTypeRead(io.result)) =>
    io.result.status = "Corruption"

\* C14 amended: ReadBlockContents returns Corruption, with no contents, for
\* a block whose read was truncated, whose checksum does not match under
\* verification, or - when decompression is requested - whose type byte
\* names no known compression type; the three have their own messages.
C14_NeverOK ==
  io.op = "ReadBlockContents" =>
    /\ TruncatedRead(io.result) =>
         /\ io.result.status = "Corruption"
         /\ io.result.msg = "truncated block read"
    /\ MismatchedRead(io.result) =>
         /\ io.result.status = "Corruption"
         /\ io.result.msg = "block checksum mismatch"
    /\ (UnknownTypeRead(io.result) /\ io.result.decompression_requested) =>
         /\ io.result.status = "Corruption"
         /\ io.result.msg = "bad block type"
    /\ (\/ TruncatedRead(io.result)
        \/ MismatchedRead(io.result)
        \/ (UnknownTypeRead(io.result) /\ io.result.decompression_requested)) =>
         io.result.contents = [data |-> [block |-> 0, flip |-> 0],
                               decompressed |-> FALSE, compression_type |-> -1]

\* The type byte of a raw block reads as 16 and decompression is requested.
C14_Witness ==
  /\ io.op = "ReadBlockContents"
  /\ io.written.type = "kNoCompression"
  /\ io.result.page.type = 16
  /\ io.result.decompression_requested
  /\ ~io.result.verify_checksums
  /\ io.result.status = "Corruption"
  /\ io.result.msg = "bad block type"

\* ==================================================== claims C27 - C29
\* A handle locates a block of this kind in the file: its contents begin at
\* the handle's offset, have the handle's size, and are followed by the
\* 5-byte trailer.
Locates(file, handle, kinds) ==
  \E k \in 1..(Len(file) - 1) :
    /\ file[k].part = "contents"
    /\ file[k].block.kind \in kinds
    /\ LengthOfChunks(file, k - 1) = handle.offset
    /\ file[k].len = handle.size
    /\ file[k + 1].part = "trailer"
    /\ file[k + 1].len = kBlockTrailerSize

\* The footer Finish() has appended is the last chunk of the file.
FooterWritten(file) == file # <<>> /\ Last(file).part = "footer"

\* C27 as stated: when Finish() appends a footer, its meta-index handle and
\* its index handle each locate a block appended whole at that offset, and
\* no block write of that Finish() has failed.
C27_AsStated ==
  /\ [](FooterWritten(rep.file) =>
          /\ Locates(rep.file, Last(rep.file).block.metaindex_handle, {"metaindex"})
          /\ Locates(rep.file, Last(rep.file).block.index_handle,
                     {"index", "index_top", "index_partition"}))
  /\ [][CallReturned("Finish") /\ FooterWritten(rep'.file) =>
          \A i \in (Len(rep.written) + 1)..Len(rep'.written) :
            rep'.written[i].ok]_vars

\* C28 as stated: PartitionedIndexBuilder::Finish() is never entered with
\* no sealed partition or with a sub-index builder in flight.
C28_AsStated ==
  /\ "Finish:entries" \notin rep.asserted
  /\ "Finish:sub_index" \notin rep.asserted

\* C29 as stated: WriteBlock is never entered with a status that is not OK.
C29_AsStated == "WriteBlock:ok" \notin rep.asserted

\* ====================================================== construction
\* Every combination of the table options the constructor reads.
AllOptions ==
  {[index_type |-> it, filter_policy |-> fp,
    partition_filters |-> pf, skip_filters |-> sf,
    compression_type |-> cs.compression_type,
    verify_compression |-> cs.verify_compression,
    block_cache_compressed |-> cs.block_cache_compressed,
    compression_dict |-> fm.compression_dict,
    format_version |-> fm.format_version, checksum |-> fm.checksum] :
     it \in IndexTypes, fp \in {"null", "block", "bits"}, pf \in BOOLEAN,
     sf \in BOOLEAN, cs \in CompressionSetups, fm \in FormatSetups}

\* No builder yet.
Unconstructed == [ret |-> [op |-> "none", code |-> "OK"]]

\* The options a builder is about to be constructed with.
OptionsInit ==
  /\ io \in {[op |-> "options", options |-> o] : o \in AllOptions}
  /\ rep = Unconstructed
  /\ pib = NewPartitionedIndexBuilder
  /\ drv = DrvInit

\* BlockBasedTableBuilder::BlockBasedTableBuilder: new Rep(...)
Construct ==
  /\ io.op = "options"
  /\ rep' = NewRep(io.options)
  /\ io' = [io EXCEPT !.op = "new"]
  /\ UNCHANGED <<pib, drv>>

OptionsNext == Construct

\* The constructor of the table builder over all options.
SpecOptions == OptionsInit /\ [][OptionsNext]_vars

\* ------------------------------------------------------------ claim C23
\* C23 as stated: whatever the options, a constructed builder whose filter
\* builder is a partitioned one has a partitioned index builder (index type
\* kTwoLevelIndexSearch) and the assertion of CreateFilterBlockBuilder has
\* held.
C23_AsStated ==
  io.op = "new" =>
    /\ rep.filter.type # "assert"
    /\ rep.filter.type = "partitioned" =>
         rep.opt.index_type = "kTwoLevelIndexSearch"

\* ------------------------------------------------------------ claim C25
\* What the compressed block cache holds for a block WriteRawBlock wrote:
\* the stored bytes and the type under the key made of the cache key prefix
\* and the varint of the handle's offset (the prefix is the builder's own
\* and the same in every key, so the offset stands for the key).
CacheCopy(w) == [key |-> w.handle.offset, block |-> w.block, type |-> w.type]

\* C25 as stated: with a compressed block cache configured every block that
\* WriteRawBlock has written, stored compressed or raw, has its copy in the
\* cache.
C25_AsStated ==
  rep.opt.block_cache_compressed =>
    \A i \in 1..Len(rep.written) :
      rep.written[i].ok => CacheCopy(rep.written[i]) \in rep.cache

\* C25: with a compressed block cache configured a block that WriteRawBlock
\* has written has its copy in the cache, under the key of its offset,
\* exactly when its stored bytes are compressed; a block stored raw is never
\* copied, the cache holds nothing but these copies, and without a
\* compressed block cache nothing is copied at all.  (A block whose copy
\* cannot be allocated is a failed write: its status is MemoryLimit.)
C25_CompressedBlocksCached ==
  /\ rep.opt.block_cache_compressed =>
       \A i \in 1..Len(rep.written) :
         LET w == rep.written[i]
         IN w.ok => (CacheCopy(w) \in rep.cache <=> w.type # "kNoCompression")
  /\ \A e \in rep.cache :
       /\ e.type # "kNoCompression"
       /\ rep.opt.block_cache_compressed
       /\ \E i \in 1..Len(rep.written) :
            rep.written[i].ok /\ e = CacheCopy(rep.written[i])

\* A compressed data block and a raw block written with the cache
\* configured; a third block failed because its copy could not be made.
C25_Witness ==
  /\ rep.opt.block_cache_compressed
  /\ \E i, j, k \in 1..Len(rep.written) :
       /\ rep.written[i].ok /\ rep.written[i].type # "kNoCompression"
       /\ CacheCopy(rep.written[i]) \in rep.cache
       /\ rep.written[j].ok /\ rep.written[j].type = "kNoCompression"
       /\ CacheCopy(rep.written[j]) \notin rep.cache
       /\ ~rep.written[k].ok /\ rep.written[k].type # "kNoCompression"
  /\ rep.status = "MemoryLimit"

\* ------------------------------------------------------------ claim C24
\* lines 163-165: the sizes of the sealed partitions; a sub-index builder
\* estimates its size as its block builder does.
RECURSIVE SealedSize(_)
SealedSize(entries) ==
  IF entries = <<>> THEN 0
  ELSE BlockLen(entries[1].value.ents) + SealedSize(Tail(entries))

\* An estimate that leaves the sealed partitions out.
EstimatedSizeInFlightOnly(ib) ==
  BlockLen(ib.index_block_builder_)
  + (IF ib.sub_index_builder_.isnull THEN 0
     ELSE BlockLen(ib.sub_index_builder_.ents))

\* PartitionedIndexBuilder::EstimatedSize
PIBEstimatedSize(ib) ==
  SealedSize(ib.entries_)
  + BlockLen(ib.index_block_builder_)
  + (IF ib.sub_index_builder_.isnull THEN 0
     ELSE BlockLen(ib.sub_index_builder_.ents))

\* C24: no AddIndexEntry call on a partitioned index builder makes
\* EstimatedSize() smaller, whether the call adds to the partition in
\* flight, seals it and starts a new one, or adds the last entry.
C24_EstimatedSizeMonotone ==
  [][(drv' # drv /\ drv'.op \in {"Add", "AddLast"}) =>
       PIBEstimatedSize(pib') >= PIBEstimatedSize(pib)]_vars

\* An AddIndexEntry call has just sealed the second partition and started
\* the third.
C24_Witness ==
  /\ drv.op = "Add"
  /\ Len(pib.entries_) = 2
  /\ ~pib.sub_index_builder_.isnull
  /\ Len(pib.sub_index_builder_.ents) = 1
  /\ PIBEstimatedSize(pib) > BlockLen(pib.sub_index_builder_.ents)

\* ==================================================== CachableEntry
\* BlockBasedTable::CachableEntry: a value and the handle of the block
\* cache it came from; 0 is nullptr.  The cache is kept as the list of the
\* handles released through it.
MaxEntryCalls == 4
MaxValue == 2

\* CachableEntry(TValue*, Cache::Handle*) and CachableEntry()
CachableEntry(value, cache_handle) == [value |-> value, cache_handle |-> cache_handle]

\* A Release that releases the handle and keeps it in the entry.
CachableEntryReleaseKeepingHandle(e, released) ==
  IF e.cache_handle # 0
    THEN [entry |-> e, released |-> Append(released, e.cache_handle)]
    ELSE [entry |-> e, released |-> released]

\* CachableEntry::Release(cache): the entry and the cache afterwards.
CachableEntryRelease(e, released) ==
  IF e.cache_handle # 0
    THEN [entry |-> CachableEntry(0, 0),
          released |-> Append(released, e.cache_handle)]
    ELSE [entry |-> e, released |-> released]

\* An entry as a caller may construct it: empty, with a value that did not
\* come from the cache, or with a value and its handle.
EntryInit ==
  /\ io \in {[op |-> "CachableEntry", ops |-> <<>>,
              entry |-> CachableEntry(v, h), released |-> <<>>, acquired |-> h] :
               v \in 0..MaxValue, h \in 0..1}
  /\ rep = Unconstructed
  /\ pib = NewPartitionedIndexBuilder
  /\ drv = DrvInit

\* entry.Release(cache)
EntryRelease ==
  /\ io.op = "CachableEntry"
  /\ Len(io.ops) < MaxEntryCalls
  /\ LET res == CachableEntryRelease(io.entry, io.released)
     IN io' = [io EXCEPT !.ops = Append(@, "Release"), !.entry = res.entry,
                         !.released = res.released]
  /\ UNCHANGED <<rep, pib, drv>>

\* The entry is assigned anew after a lookup: a value, with a handle the
\* cache has not handed out before when the value is from the cache.
EntryAssign ==
  /\ io.op = "CachableEntry"
  /\ Len(io.ops) < MaxEntryCalls
  /\ \E v \in 1..MaxValue, cached \in BOOLEAN :
       io' = [io EXCEPT
                !.ops = Append(@, "Assign"),
                !.entry = CachableEntry(v, IF cached THEN io.acquired + 1 ELSE 0),
                !.acquired = IF cached THEN @ + 1 ELSE @]
  /\ UNCHANGED <<rep, pib, drv>>

EntryNext == EntryRelease \/ EntryAssign

SpecEntry == EntryInit /\ [][EntryNext]_vars

\* ------------------------------------------------------------ claim C26
Released(ops) == ops # <<>> /\ Last(ops) = "Release"

\* C26: a handle held by the entry is released through the cache at most
\* once.  Release() on an entry with a handle releases that handle and
\* clears handle and value; a Release() that follows a Release() releases
\* nothing; Release() on an entry without a handle changes neither the
\* cache nor the entry.
C26_ReleaseOnce ==
  /\ [](io.op = "CachableEntry" =>
          \A i, j \in 1..Len(io.released) :
            io.released[i] = io.released[j] => i = j)
  /\ [][(io.op = "CachableEntry" /\ io' # io /\ Released(io'.ops)) =>
          /\ io.entry.cache_handle # 0 =>
               /\ io'.released = Append(io.released, io.entry.cache_handle)
               /\ io'.entry = CachableEntry(0, 0)
          /\ io.entry.cache_handle = 0 =>
               /\ io'.released = io.released
               /\ io'.entry = io.entry
          /\ Released(io.ops) => io'.released = io.released]_vars

\* Released twice in a row with a handle held at first.
C26_Witness ==
  /\ io.op = "CachableEntry"
  /\ io.ops = <<"Assign", "Release", "Release">>
  /\ io.released = <<io.acquired>>
  /\ io.entry = CachableEntry(0, 0)

\* ==================================================== claims C21, C22
\* The data block writes of the builder, in order, and those that succeeded.
DataWrites == SelectSeq(rep.written, LAMBDA w : w.block.kind = "data")

WrittenDataBlocks == SelectSeq(DataWrites, LAMBDA w : w.ok)

\* The first key of the block after the p-th data block: of the next block
\* written, or else of the block being built; 0 when there is none.
NextFirstKey(p) ==
  IF p < Len(DataWrites) THEN DataWrites[p + 1].block.ents[1]
  ELSE IF rep.data_block # <<>> THEN rep.data_block[1]
  ELSE 0

\* The index entry e is that of the data block write w.
EntryOfBlock(e, w) ==
  /\ e.last_key = Last(w.block.ents)
  /\ e.handle = w.handle
  /\ \E p \in 1..Len(DataWrites) :
       DataWrites[p] = w /\ e.next_key = NextFirstKey(p)

\* The index entry e was added before its next key was passed to the
\* filter builder.
AddedBeforeFilterAdd(e) ==
  (rep.filter.type # "none" /\ e.next_key # 0) =>
    /\ \E j \in 1..Len(rep.filter.calls) :
         rep.filter.calls[j] = <<"Add", e.next_key>>
    /\ \A j \in 1..Len(rep.filter.calls) :
         rep.filter.calls[j] = <<"Add", e.next_key>> => j > e.filter_calls

\* The index entries a call has added.
NewIndexCalls == SubSeq(rep'.index_calls, Len(rep.index_calls) + 1,
                        Len(rep'.index_calls))

\* C21 as stated: every data block the builder has flushed has exactly one
\* index entry, in block order, with the block's last key, its handle and
\* the first key of the next block.
C21_AsStated ==
  /\ Len(rep.index_calls) = Len(DataWrites)
  /\ \A i \in 1..Len(DataWrites) :
       i <= Len(rep.index_calls) => EntryOfBlock(rep.index_calls[i], DataWrites[i])

\* C21: every data block whose write succeeded has exactly one index entry
\* and no other block has one; the entries are in block order, each with
\* its block's last key, its block's handle and the first key of the next
\* block; an entry added by Add() has that call's key as its next key, an
\* entry added by Finish() has no next key; and each entry was added before
\* its next key was passed to the filter builder.
C21_IndexEntryPerBlock ==
  /\ [](/\ Len(rep.index_calls) = Len(WrittenDataBlocks)
        /\ \A i \in 1..Len(rep.index_calls) :
             /\ EntryOfBlock(rep.index_calls[i], WrittenDataBlocks[i])
             /\ AddedBeforeFilterAdd(rep.index_calls[i]))
  /\ [][/\ Len(NewIndexCalls) <= 1
        /\ \A i \in 1..Len(NewIndexCalls) :
             /\ CallReturned("Add") => NewIndexCalls[i].next_key = rep'.last_key
             /\ CallReturned("Finish") => NewIndexCalls[i].next_key = 0]_vars

\* Three data blocks, the last one indexed by Finish(), under a partitioned
\* index with a partitioned filter.
C21_Witness ==
  /\ rep.ret = [op |-> "Finish", code |-> "OK"]
  /\ rep.opt.index_type = "kTwoLevelIndexSearch"
  /\ rep.filter.type = "partitioned"
  /\ Len(rep.index_calls) = 3
  /\ rep.index_calls[1].next_key = 2
  /\ rep.index_calls[3].next_key = 0
  /\ Len(DataWrites) = 3

\* The file offset after a WriteRawBlock call.
OffsetAfter(w) ==
  IF w.ok THEN w.before + w.block.len + kBlockTrailerSize ELSE w.before

IsFilterFinish(call) == call[1] = "Finish"

MaxReads == 2

NoPage == [key |-> 0 - 1]

\* lines 364-392 with the cache as it is: LookupUncompressedPage in a cache
\* of uncompressed pages, LookupRawPage in a cache of raw pages.
LookupCachedPage(cache, handle, c) ==
  IF c.pcache = "uncompressed" /\ cache.uncompressed.key = handle.offset
    THEN [c EXCEPT !.done = TRUE, !.status = "OK",
                   !.contents = cache.uncompressed.contents,
                   !.page = cache.uncompressed.of,
                   !.source = "uncompressed page", !.memory = "heap"]
  ELSE IF c.pcache = "compressed" /\ cache.raw.key = handle.offset
    THEN [c EXCEPT !.status = "OK", !.page = cache.raw.page,
                   !.used_buf = "heap", !.in_buf = TRUE,
                   !.source = "raw page"]
  ELSE [c EXCEPT !.status = "NotFound"]

\* ReadBlockContents with the persistent cache of cache_options
ReadBlockContentsCached(cache, file, handle, c) ==
  HandBack(
    ReadFromDevice(file, handle,
      ChooseBuffer(LookupCachedPage(cache, handle, c), handle.size)),
    handle.size)

\* What the buffer handed to ReadBlock may hold when the call begins: it is
\* a fresh allocation or the stack array, so its bytes are whatever was
\* there.  page is what the file holds for the handle: the buffer may hold
\* those very bytes, or bytes that differ from them.
UninitialisedBuffers(page) ==
  {page, [page EXCEPT !.data.flip = 1], [page EXCEPT !.type = FlipBit(@, 0)]}

\* The bytes of used_buf after ReadBlock: the bytes read when file->read
\* filled the buffer it was given, and the bytes the buffer held before
\* when file->read pointed the slice at a buffer of its own.
UsedBuf(res, before) == IF res.in_buf THEN res.page ELSE before

\* lines 417-423: InsertRawPage(cache_options, handle, used_buf, n + 5)
\* after a ReadBlock that returned OK; res is the call as it ended and
\* before what used_buf held when it began.  The page is kept with the
\* bytes the file read returned (of).
RawPageInserted(cache, handle, res, fill_cache, before) ==
  IF /\ res.source = "file"
     /\ ReadBlock([status |-> res.read.status, page |-> res.page], handle.size,
                  res.checksum, res.verify_checksums).status = "OK"
     /\ fill_cache
     /\ res.pcache = "compressed"
    THEN [key |-> handle.offset, page |-> UsedBuf(res, before), of |-> res.page]
    ELSE cache.raw

\* lines 455-461: InsertUncompressedPage at the end of a call that is OK
UncompressedPageInserted(cache, handle, res, fill_cache) ==
  IF /\ res.source = "file"
     /\ res.status = "OK"
     /\ fill_cache
     /\ res.pcache = "uncompressed"
    THEN [key |-> handle.offset, contents |-> res.contents, of |-> res.page]
    ELSE cache.uncompressed

\* A table file with one block written and a persistent cache that is
\* empty, in either mode.
CacheInit ==
  /\ rep \in {ReturnStatus(WriteBlock(NewRep(o), RawBlock(16), TRUE), "WriteBlock") :
                o \in BlockOptions}
  /\ io \in {[op |-> "PersistentCache", pcache |-> mode, raw |-> NoPage,
              uncompressed |-> NoPage, reads |-> 0, result |-> NoCall] :
               mode \in {"uncompressed", "compressed"}}
  /\ pib = NewPartitionedIndexBuilder
  /\ drv = DrvInit

\* What the environment of a read through the cache does: the bytes of the
\* block as the file gives them, and the allocator and the decompression
\* library as before.
CacheReadEnvs ==
  {e \in ReadEnvs("none") :
     /\ e.damage \in {[kind |-> "none", bit |-> 0], [kind |-> "data_bit", bit |-> 1],
                      [kind |-> "type_bit", bit |-> 0],
                      [kind |-> "checksum_bit", bit |-> 1],
                      [kind |-> "short", bit |-> 1]}
     /\ e.malloc < 2}

\* One ReadBlockContents call on the block, with the read options of the
\* caller and the persistent cache the calls share.
CachedRead ==
  /\ io.op = "PersistentCache"
  /\ io.reads < MaxReads
  /\ \E verify_checksums, decompression_requested, fill_cache \in BOOLEAN,
        env \in CacheReadEnvs,
        before \in UninitialisedBuffers(StoredPage(rep.file, rep.written[1].handle)) :
       io' = [io EXCEPT
                !.reads = @ + 1,
                !.result = ReadBlockContentsCached(
                             io, rep.file, rep.written[1].handle,
                             ReadCall(ChecksumTypeValue(rep.opt.checksum),
                                      verify_checksums, decompression_requested,
                                      io.pcache, env)),
                !.raw = RawPageInserted(
                          io, rep.written[1].handle,
                          ReadBlockContentsCached(
                            io, rep.file, rep.written[1].handle,
                            ReadCall(ChecksumTypeValue(rep.opt.checksum),
                                     verify_checksums, decompression_requested,
                                     io.pcache, env)),
                          fill_cache, before),
                !.uncompressed = UncompressedPageInserted(
                          io, rep.written[1].handle,
                          ReadBlockContentsCached(
                            io, rep.file, rep.written[1].handle,
                            ReadCall(ChecksumTypeValue(rep.opt.checksum),
                                     verify_checksums, decompression_requested,
                                     io.pcache, env)),
                          fill_cache)]
  /\ UNCHANGED <<pib, drv, rep>>

CacheNext == CachedRead

SpecCache == CacheInit /\ [][CacheNext]_vars

\* ------------------------------------------------------------ claim C30
\* C30 as stated: a ReadBlockContents call made with verify_checksums = true
\* returns OK only for bytes whose checksum matches, whether they were read
\* from the file or taken from the persistent cache.
C30_AsStated ==
  (io.op = "PersistentCache" /\ io.reads > 0
   /\ io.result.verify_checksums /\ io.result.status = "OK") =>
    VerifiedChecksum(io.result.page, io.result.checksum).status = "OK"

\* ------------------------------------------------------------ claim C31
\* C31 as stated: every raw page ReadBlockContents inserts into the
\* persistent cache for a handle consists of exactly the handle.size + 5
\* bytes the file read returned for that handle, also when the file reader
\* returned its data in a buffer other than the one it was given.
C31_AsStated ==
  (io.op = "PersistentCache" /\ io.raw.key # NoPage.key) =>
    /\ io.raw.page.size = rep.written[1].handle.size + kBlockTrailerSize
    /\ io.raw.page = io.raw.of

\* ------------------------------------------------------------ claim C32
\* An Add() of a point key that runs the ordering check of line 386: the
\* builder held entries when the call began.
ChecksKeyOrder ==
  /\ rep'.ret.op = "Add"
  /\ rep'.last_key # rep.last_key
  /\ rep.num_entries > 0

\* C32 as stated: whenever Add checks the ordering of a new point key it
\* compares the key with the most recently added point key; last_key is
\* never empty at that check, for every mix of point entries and
\* range-deletion entries, including a range deletion added first.
C32_AsStated == [][ChecksKeyOrder => rep.last_key # 0]_vars

\* ================================================== delete scheduler
\* DeleteScheduler: the threads that call DeleteFile, one thread in
\* WaitForEmptyTrash, the thread that destroys the scheduler and the
\* background thread.  Every stretch of code a thread runs holding mu_ is
\* one step; a thread in cv_.Wait or cv_.TimedWait goes on only after a
\* SignalAll made while it waits (woken), or at its deadline.
MaxFiles == 2

Files == 1..MaxFiles

\* cv_.SignalAll(): every thread waiting on cv_ is woken.
SignalAll(s) ==
  [s EXCEPT !.bg.woken = @ \/ s.bg.pc \in {"wait_work", "penalty"},
            !.waiter.woken = @ \/ s.waiter.pc = "waiting"]

\* The constructor: no file pending, not closing, the background thread at
\* the top of BackgroundEmptyTrash.  asked, trash, deleted and direct
\* record what became of the files.
NewDeleteScheduler(rate_bytes_per_sec) ==
  [op |-> "DeleteScheduler", rate_bytes_per_sec_ |-> rate_bytes_per_sec,
   queue_ |-> <<>>, pending_files_ |-> 0, closing_ |-> FALSE, bg_errors_ |-> {},
   bg |-> [pc |-> "start", woken |-> FALSE, path_in_trash |-> 0, ok |-> TRUE],
   waiter |-> [pc |-> "idle", woken |-> FALSE, waited |-> FALSE,
               closing |-> FALSE, undone |-> {}],
   dtor |-> "idle", asked |-> {}, trash |-> {}, deleted |-> {}, direct |-> {}]

\* A DeleteFile that queues the file and wakes nobody.
QueueFileNoSignal(s, f) ==
  [s EXCEPT !.queue_ = Append(@, f), !.pending_files_ = @ + 1,
            !.trash = @ \cup {f}]

\* lines 76-85: the file is added to the delete queue
QueueFile(s, f) ==
  IF s.pending_files_ + 1 = 1
    THEN SignalAll([s EXCEPT !.queue_ = Append(@, f), !.pending_files_ = @ + 1,
                             !.trash = @ \cup {f}])
    ELSE [s EXCEPT !.queue_ = Append(@, f), !.pending_files_ = @ + 1,
                   !.trash = @ \cup {f}]

\* DeleteScheduler::DeleteFile: moved is whether MoveToTrash succeeded.
DeleteFileOp(s, f, moved) ==
  IF s.rate_bytes_per_sec_ <= 0 \/ ~moved
    THEN [s EXCEPT !.asked = @ \cup {f}, !.direct = @ \cup {f}]
    ELSE QueueFile([s EXCEPT !.asked = @ \cup {f}], f)

\* lines 158-163: the front of the queue is taken and mu_ is unlocked
TakeFront(s) ==
  [s EXCEPT !.bg = [pc |-> "deleting", woken |-> FALSE,
                    path_in_trash |-> Head(s.queue_), ok |-> TRUE],
            !.queue_ = Tail(@)]

\* lines 137-150: with mu_ held at the top of the outer loop, the thread
\* waits for work, returns, or takes a file.
BgNextFile(s) ==
  IF s.queue_ = <<>> /\ ~s.closing_
    THEN [s EXCEPT !.bg.pc = "wait_work", !.bg.woken = FALSE]
  ELSE IF s.closing_
    THEN [s EXCEPT !.bg.pc = "done", !.bg.woken = FALSE]
  ELSE TakeFront(s)

\* The end of a file that leaves pending_files_ as it is.
FileDoneKeepingCount(s) ==
  IF s.pending_files_ = 0 THEN SignalAll(s) ELSE s

\* lines 189-194
FileDone(s) ==
  IF s.pending_files_ - 1 = 0
    THEN SignalAll([s EXCEPT !.pending_files_ = @ - 1])
    ELSE [s EXCEPT !.pending_files_ = @ - 1]

\* lines 189-194 and the loop condition of line 150: the next file, or the
\* end of the scope of the lock and the outer loop again.
AfterPenalty(s) ==
  IF FileDone(s).queue_ # <<>> /\ ~s.closing_
    THEN TakeFront(FileDone(s))
    ELSE [FileDone(s) EXCEPT !.bg.pc = "start", !.bg.woken = FALSE]

\* lines 168-184: mu_ is taken again, the error is recorded and the thread
\* enters the rate-limit wait unless the scheduler is closing.
RecordAndWait(s) ==
  IF s.closing_
    THEN AfterPenalty([s EXCEPT !.bg_errors_ =
                         IF s.bg.ok THEN @ ELSE @ \cup {s.bg.path_in_trash}])
    ELSE [s EXCEPT !.bg_errors_ =
                     IF s.bg.ok THEN @ ELSE @ \cup {s.bg.path_in_trash},
                   !.bg.pc = "penalty", !.bg.woken = FALSE]

\* lines 222-227: the test of WaitForEmptyTrash with mu_ held; at the
\* return, what the caller finds.
WaitCheck(s) ==
  IF s.pending_files_ > 0 /\ ~s.closing_
    THEN [s EXCEPT !.waiter.pc = "waiting", !.waiter.woken = FALSE,
                   !.waiter.waited = TRUE]
    ELSE [s EXCEPT !.waiter.pc = "returned", !.waiter.woken = FALSE,
                   !.waiter.closing = s.closing_,
                   !.waiter.undone = s.trash \ (s.deleted \cup s.bg_errors_)]

\* A destructor that sets closing_ and signals nobody.
CloseWithoutSignal(s) == [s EXCEPT !.closing_ = TRUE, !.dtor = "joining"]

\* lines 42-46
CloseScheduler(s) == SignalAll([s EXCEPT !.closing_ = TRUE, !.dtor = "joining"])

TrashInit ==
  /\ io \in {NewDeleteScheduler(rate) : rate \in {0, 1}}
  /\ rep = Unconstructed
  /\ pib = NewPartitionedIndexBuilder
  /\ drv = DrvInit

\* A thread calls DeleteFile on a file not handed to the scheduler before;
\* no call is made on a scheduler whose destructor has begun.
DeleteFile ==
  /\ io.op = "DeleteScheduler"
  /\ io.dtor = "idle"
  /\ \E f \in Files \ io.asked, moved \in BOOLEAN :
       io' = DeleteFileOp(io, f, moved)
  /\ UNCHANGED <<pib, drv, rep>>

\* The background thread takes mu_ at the top of the outer loop, or wakes
\* in the wait of line 139.
BgRun ==
  /\ io.op = "DeleteScheduler"
  /\ io.bg.pc = "start" \/ (io.bg.pc = "wait_work" /\ io.bg.woken)
  /\ io' = BgNextFile(io)
  /\ UNCHANGED <<pib, drv, rep>>

\* lines 164-167: DeleteTrashFile, without mu_
BgDeleteTrashFile ==
  /\ io.op = "DeleteScheduler"
  /\ io.bg.pc = "deleting"
  /\ \E ok \in BOOLEAN :
       io' = [io EXCEPT !.bg.pc = "deleted", !.bg.ok = ok,
                        !.deleted = IF ok THEN @ \cup {io.bg.path_in_trash} ELSE @]
  /\ UNCHANGED <<pib, drv, rep>>

BgRecord ==
  /\ io.op = "DeleteScheduler"
  /\ io.bg.pc = "deleted"
  /\ io' = RecordAndWait(io)
  /\ UNCHANGED <<pib, drv, rep>>

\* line 180: TimedWait returns true at the deadline
BgPenaltyTimedOut ==
  /\ io.op = "DeleteScheduler"
  /\ io.bg.pc = "penalty"
  /\ io' = AfterPenalty(io)
  /\ UNCHANGED <<pib, drv, rep>>

\* line 180: TimedWait returns false after a signal; the loop waits again
\* unless the scheduler is closing.
BgPenaltySignalled ==
  /\ io.op = "DeleteScheduler"
  /\ io.bg.pc = "penalty"
  /\ io.bg.woken
  /\ io' = IF io.closing_ THEN AfterPenalty(io) ELSE [io EXCEPT !.bg.woken = FALSE]
  /\ UNCHANGED <<pib, drv, rep>>

\* A thread calls WaitForEmptyTrash, or wakes in its wait.
WaitForEmptyTrash ==
  /\ io.op = "DeleteScheduler"
  /\ \/ io.waiter.pc \in {"idle", "returned"} /\ io.dtor = "idle"
     \/ io.waiter.pc = "waiting" /\ io.waiter.woken
  /\ io' = WaitCheck([io EXCEPT !.waiter.waited = (io.waiter.pc = "waiting")])
  /\ UNCHANGED <<pib, drv, rep>>

\* ~DeleteScheduler, to the join
DestructorCloses ==
  /\ io.op = "DeleteScheduler"
  /\ io.dtor = "idle"
  /\ io' = CloseScheduler(io)
  /\ UNCHANGED <<pib, drv, rep>>

\* lines 47-49: join returns when the background thread has returned
DestructorJoins ==
  /\ io.op = "DeleteScheduler"
  /\ io.dtor = "joining"
  /\ io.bg.pc = "done"
  /\ io' = [io EXCEPT !.dtor = "destroyed"]
  /\ UNCHANGED <<pib, drv, rep>>

TrashNext ==
  \/ DeleteFile \/ BgRun \/ BgDeleteTrashFile \/ BgRecord \/ BgPenaltyTimedOut
  \/ BgPenaltySignalled \/ WaitForEmptyTrash \/ DestructorCloses
  \/ DestructorJoins

SpecTrash == TrashInit /\ [][TrashNext]_vars

\* Every thread that can take a step gets to take it; the deadline of a
\* TimedWait passes.
FairSpecTrash ==
  /\ SpecTrash
  /\ WF_vars(BgRun) /\ WF_vars(BgDeleteTrashFile) /\ WF_vars(BgRecord)
  /\ WF_vars(BgPenaltyTimedOut) /\ WF_vars(WaitForEmptyTrash /\ io.waiter.pc = "waiting")
  /\ WF_vars(DestructorJoins)

\* ------------------------------------------------------------ claim C33
\* The file the background thread has popped and not yet finished.
InFlight(s) == IF s.bg.pc \in {"deleting", "deleted", "penalty"} THEN 1 ELSE 0

\* C33: pending_files_ equals the number of files in the delete queue plus
\* the one file the background thread has popped and not yet finished, and
\* is never negative; WaitForEmptyTrash, unless the scheduler is closing,
\* returns only when every file queued so far has been deleted or has its
\* error recorded.
C33_PendingFiles ==
  io.op = "DeleteScheduler" =>
    /\ io.pending_files_ = Len(io.queue_) + InFlight(io)
    /\ io.pending_files_ >= 0
    /\ (io.waiter.pc = "returned" /\ ~io.waiter.closing) => io.waiter.undone = {}

C33_Witness ==
  /\ io.op = "DeleteScheduler"
  /\ io.waiter.pc = "returned" /\ io.waiter.waited /\ ~io.waiter.closing
  /\ io.trash = Files
  /\ io.bg_errors_ # {} /\ io.deleted # {}

\* ------------------------------------------------------------ claim C34
\* A file of the queue has been taken by the background thread and is
\* finished: deleted, or its error recorded.
Taken(f) == f \in io.deleted \cup io.bg_errors_

\* C34: with rate limiting enabled and the scheduler not being destroyed,
\* every file queued by DeleteFile is eventually deleted or has its error
\* recorded in bg_errors_, and a thread blocked in WaitForEmptyTrash
\* eventually returns.
C34_NoLostWakeup ==
  /\ \A f \in Files :
       (io.op = "DeleteScheduler" /\ f \in io.trash) ~> (Taken(f) \/ io.closing_)
  /\ (io.op = "DeleteScheduler" /\ io.waiter.pc = "waiting")
       ~> (io.waiter.pc = "returned")

\* The background thread waits for work, a file is queued, and a thread
\* that waited in WaitForEmptyTrash has returned with every file done.
C34_Witness ==
  /\ io.op = "DeleteScheduler"
  /\ ~io.closing_
  /\ io.trash = Files /\ \A f \in Files : Taken(f)
  /\ io.bg.pc = "wait_work"
  /\ io.waiter.pc = "returned" /\ io.waiter.waited

\* ------------------------------------------------------------ claim C35
\* The background thread starts a file: it pops the queue.
StartsFile == io'.bg.pc = "deleting" /\ Len(io'.queue_) < Len(io.queue_)

\* C35: once closing_ is set the background thread exits without starting
\* another file and the destructor's join returns; the files still in the
\* queue are left there.
C35_DestructorTerminates ==
  /\ (io.op = "DeleteScheduler" /\ io.closing_) ~> (io.dtor = "destroyed")
  /\ [][(io.op = "DeleteScheduler" /\ io.closing_) =>
          ~StartsFile /\ io'.queue_ = io.queue_]_vars

\* The scheduler is destroyed with a file left in the queue, after the
\* background thread had a file in hand when closing_ was set.
C35_Witness ==
  /\ io.op = "DeleteScheduler"
  /\ io.dtor = "destroyed"
  /\ io.queue_ # <<>>
  /\ io.deleted \cup io.bg_errors_ # {}

\* ========================================================== Lru_list
\* Lru_list: Prealloc elements, each in the free list, in the LRU list (and
\* then in the hash), or in the hands of a caller of get_free_item.
\* Elements are numbered from 1 and 0 is nullptr; a hash cell holds the
\* chain of its elements, first to last.
Prealloc == 3

MaxLruKey == 2

HASH_SIZE == Prealloc \div 2

HASH_LINK_MAX_SIZE == 4

Elements == 1..Prealloc

\* ut_hash_ulint(key, table_size)
HashCell(key) == key % HASH_SIZE

\* The elements of a sequence without one of them.
Without(seq, e) == SelectSeq(seq, LAMBDA x : x # e)

\* lines 58-87: iv_hash_insert; TRUE is failure: the key is in the chain
\* of the cell, or the walk to the end of the chain passes more than
\* HASH_LINK_MAX_SIZE + 2 nodes.
IvHashInsertFails(s, elem) ==
  LET chain == s.cells[HashCell(s.key[elem])]
  IN \/ \E k \in 1..Len(chain) : s.key[chain[k]] = s.key[elem]
     \/ Len(chain) - 2 > HASH_LINK_MAX_SIZE

IvHashInsert(s, elem) ==
  IF IvHashInsertFails(s, elem) THEN s
  ELSE [s EXCEPT !.cells[HashCell(s.key[elem])] = Append(@, elem)]

\* lines 89-108: iv_hash_delete of an element that is in its chain
IvHashDelete(s, elem) ==
  [s EXCEPT !.cells[HashCell(s.key[elem])] = Without(@, elem)]

\* line 203-206: put_free_item
PutFreeItem(s, elem) == [s EXCEPT !.free = Append(@, elem)]

\* lines 191-196: the first element of the LRU list leaves the list and
\* the hash and joins the free list.
EvictFirst(s) ==
  PutFreeItem(IvHashDelete([s EXCEPT !.lru = Tail(@),
                                     !.last.evictions = @ + 1],
                           Head(s.lru)),
              Head(s.lru))

\* lines 180-201: get_free_item from the label retry on.  With both lists
\* empty elem is nullptr at line 193 and lines 194-195 work on it: ub is
\* what the build makes of that, and the call never returns.
RECURSIVE GetFreeItemRetry(_, _)
GetFreeItemRetry(s, ub) ==
  IF s.free # <<>>
    THEN [s EXCEPT !.free = Tail(@), !.held = @ \cup {Head(s.free)},
                   !.last.tries = @ + 1, !.last.elem = Head(s.free),
                   !.last.outcome = "returned"]
  ELSE IF s.lru # <<>>
    THEN GetFreeItemRetry([EvictFirst(s) EXCEPT !.last.tries = @ + 1], ub)
  ELSE [s EXCEPT !.last.tries = @ + 1, !.last.elem = 0, !.last.outcome = ub]

\* What the call found when it began, for the record of the call.
GetFreeItem(s, ub) ==
  GetFreeItemRetry(
    [s EXCEPT !.last = [tries |-> 0, evictions |-> 0, elem |-> 0,
                        outcome |-> "none", free |-> s.free, lru |-> s.lru]],
    ub)

\* The constructor: every element is in the free list.
NewLruList ==
  [op |-> "Lru_list", free |-> [e \in Elements |-> e], lru |-> <<>>,
   cells |-> [c \in 0..(HASH_SIZE - 1) |-> <<>>],
   key |-> [e \in Elements |-> 0], held |-> {},
   last |-> [tries |-> 0, evictions |-> 0, elem |-> 0, outcome |-> "none",
             free |-> <<>>, lru |-> <<>>]]

LruInit ==
  /\ io = NewLruList
  /\ rep = Unconstructed
  /\ pib = NewPartitionedIndexBuilder
  /\ drv = DrvInit

Crashed(s) == s.last.outcome \in {"assertion failure", "invalid memory access"}

\* A caller takes an element with get_free_item.
LruGetFreeItem ==
  /\ io.op = "Lru_list"
  /\ ~Crashed(io)
  /\ \E ub \in {"assertion failure", "invalid memory access"} :
       io' = GetFreeItem(io, ub)
  /\ UNCHANGED <<pib, drv, rep>>

\* The holder of an element gives it a key and links it into the hash and
\* at the end of the LRU list, as an insert does, or hands it back when
\* the hash does not take it.
LruLink ==
  /\ io.op = "Lru_list"
  /\ ~Crashed(io)
  /\ \E e \in io.held, k \in 1..MaxLruKey :
       io' = IF IvHashInsertFails([io EXCEPT !.key[e] = k], e)
               THEN PutFreeItem([io EXCEPT !.held = @ \ {e}], e)
               ELSE [IvHashInsert([io EXCEPT !.key[e] = k], e)
                       EXCEPT !.lru = Append(@, e), !.held = @ \ {e}]
  /\ UNCHANGED <<pib, drv, rep>>

\* The holder of an element hands it back with put_free_item.
LruPutFreeItem ==
  /\ io.op = "Lru_list"
  /\ ~Crashed(io)
  /\ \E e \in io.held : io' = PutFreeItem([io EXCEPT !.held = @ \ {e}], e)
  /\ UNCHANGED <<pib, drv, rep>>

LruNext == LruGetFreeItem \/ LruLink \/ LruPutFreeItem

SpecLru == LruInit /\ [][LruNext]_vars

\* ------------------------------------------------------------ claim C36
\* C36 as stated: get_free_item ends after at most one eviction and one
\* retry: it returns an element it has removed from the free list; with an
\* empty free list the oldest LRU element has left the LRU list and the
\* hash for the free list first; and when nothing can be evicted either it
\* fails as a resource-exhaustion error instead of using a missing
\* element.
C36_AsStated ==
  [][(io.op = "Lru_list" /\ io'.last # io.last) =>
       /\ io'.last.evictions <= 1 /\ io'.last.tries <= 2
       /\ io'.last.outcome = "returned" =>
            /\ io'.last.elem \in Elements
            /\ \A k \in 1..Len(io'.free) : io'.free[k] # io'.last.elem
            /\ io.free = <<>> =>
                 /\ io'.last.evictions = 1
                 /\ io'.last.elem = Head(io.lru)
                 /\ \A k \in 1..Len(io'.lru) : io'.lru[k] # io'.last.elem
                 /\ \A c \in DOMAIN io'.cells :
                      \A k \in 1..Len(io'.cells[c]) :
                        io'.cells[c][k] # io'.last.elem
       /\ (io.free = <<>> /\ io.lru = <<>>) =>
            io'.last.outcome = "resource exhausted"]_vars

\* ------------------------------------------------------------ claim C37
\* Every combination of format_version and checksum a builder can be given,
\* with a binary-search index, no filter and no compression.
FooterOptions ==
  {[index_type |-> "kBinarySearch", filter_policy |-> "null",
    partition_filters |-> FALSE, skip_filters |-> FALSE,
    compression_type |-> "kNoCompression", verify_compression |-> FALSE,
    block_cache_compressed |-> FALSE, compression_dict |-> FALSE,
    format_version |-> v, checksum |-> c] :
     v \in 0..2, c \in {"kNoChecksum", "kCRC32c", "kxxHash"}}

FooterOptionsInit ==
  /\ rep \in {NewRep(o) : o \in FooterOptions}
  /\ pib = NewPartitionedIndexBuilder
  /\ drv = DrvInit
  /\ io = NoCall

SpecFooterOptions == FooterOptionsInit /\ [][Next]_vars

\* The footers in the file.
FootersWritten ==
  {rep.file[k].block : k \in {j \in 1..Len(rep.file) : rep.file[j].part = "footer"}}

\* C37: the footer written by Finish() has the legacy magic exactly when
\* the builder's effective format_version is 0, and then its checksum type
\* is CRC32c and its version is 0, so that the assertions of the Footer
\* constructor and of the legacy branch of Footer::EncodeTo hold.
C37_LegacyFooter ==
  \A f \in FootersWritten :
    /\ (f.magic = "kLegacyBlockBasedTableMagicNumber") <=> (rep.opt.format_version = 0)
    /\ (f.magic = "kLegacyBlockBasedTableMagicNumber") =>
         (f.checksum = "kCRC32c" /\ f.version = 0)

\* Finish() has written the legacy footer of a table with entries.
C37_Witness ==
  /\ rep.ret = [op |-> "Finish", code |-> "OK"]
  /\ rep.num_entries > 0
  /\ \E f \in FootersWritten : f.magic = "kLegacyBlockBasedTableMagicNumber"

\* ------------------------------------------------------------ claim C38
\* C38: the BlockContents that ReadBlockContents returns never refer to
\* the stack buffer of the call: a block that was read into the stack
\* buffer and is returned without decompression is first copied into a
\* heap allocation that the result owns.
C38_NoStackBuffer ==
  (io.op = "ReadBlockContents" /\ io.result.status = "OK") =>
    /\ io.result.memory \in {"heap", "heap copy", "uncompressed", "file reader"}
    /\ (/\ io.result.used_buf = "stack"
        /\ io.result.in_buf
        /\ ~io.result.contents.decompressed) => io.result.memory = "heap copy"

\* A small block stored raw is read with decompression requested into the
\* stack buffer and handed back.
C38_Witness ==
  /\ io.op = "ReadBlockContents"
  /\ io.result.status = "OK"
  /\ io.result.used_buf = "stack"
  /\ io.result.in_buf
  /\ io.result.page.type = kNoCompression
  /\ io.result.memory = "heap copy"
  /\ io.result.contents.data = io.result.page.data

====
